---- MODULE Spec2Model ----
(***************************************************************************)
(* Search ranking of the evidence-triage application.                      *)
(*                                                                         *)
(* Two ranking subsystems live side by side:                               *)
(*   - the legacy store module (localStorage key 'evidence-triage-items'): *)
(*     searchEvidence, cosineSimilarity, semanticSearch and the local      *)
(*     hybridSearch(query, embedding?, keywordWeight, semanticWeight);     *)
(*   - the vault service module (localStorage key 'evidence-metadata'):    *)
(*     searchVault and the remote-assisted hybridSearch(query, filters?).  *)
(* Around them: the API key helpers, the metadata store operations and the *)
(* search handler of the page component.                                   *)
(*                                                                         *)
(* State.                                                                  *)
(*   localStorage  the browser's localStorage, key by key                  *)
(*   call          a library call and what it returned, until it is taken  *)
(*   page          the React state of the page component                   *)
(*   pending       the handleSearch invocations waiting for a response     *)
(*                                                                         *)
(* Representation.                                                         *)
(*   string          a sequence of one-character strings                   *)
(*   optional field  <<>> when absent (undefined), <<v>> when present      *)
(*   weights         hundredths (0.3 is 30)                                *)
(*   minScore        hundredths (0.3 is 30)                                *)
(*   remote score    thousandths (0.92 is 920)                             *)
(*   similarity      [num, den2] standing for num / sqrt(den2)             *)
(* Floating-point arithmetic is modelled by exact arithmetic on these      *)
(* integers; the input pools below only hold values on which IEEE-754      *)
(* doubles give the same rounding and the same comparisons.                *)
(***************************************************************************)
EXTENDS Integers, Sequences, FiniteSets, TLC

VARIABLES localStorage, call, page, pending, cloud

vars == <<localStorage, call, page, pending, cloud>>

-----------------------------------------------------------------------------
(* Bounds *)

MaxDocs == 2
MaxRemote == 2
MaxPending == 2
MaxChunks == 3
MaxUploads == 1

-----------------------------------------------------------------------------
(* Program constants *)

API_KEY_STORAGE_KEY == "case-dev-api-key"
DATABASE_PROJECT_ID_KEY == "case-dev-database-project-id"
VAULT_ID_KEY == "case-dev-vault-id"
EVIDENCE_METADATA_KEY == "evidence-metadata"
STORAGE_KEY == "evidence-triage-items"

StorageKeys ==
  {API_KEY_STORAGE_KEY, DATABASE_PROJECT_ID_KEY, VAULT_ID_KEY, EVIDENCE_METADATA_KEY, STORAGE_KEY}

MAX_RAW_SCORE == 110
DefaultMinScore == 30
DefaultKeywordWeight == 30
DefaultSemanticWeight == 70
(* the combiner calling semanticSearch with the scorer's default threshold *)
HybridMinScoreLeftAtDefault == DefaultMinScore

HybridMinScore == 20

-----------------------------------------------------------------------------
(* JavaScript values *)

(* localStorage.getItem: null for a missing key, else the stored value v as <<v>> *)
null == <<>>
undefined == <<>>
Some(v) == <<v>>
IsDefined(o) == Len(o) > 0
ValueOf(o) == o[1]

(* String.prototype.toLowerCase on one character and on a string *)
LowerChar(c) ==
  CASE c = "A" -> "a"
    [] c = "B" -> "b"
    [] c = "Z" -> "z"
    [] OTHER -> c

toLowerCase(s) == [i \in 1..Len(s) |-> LowerChar(s[i])]

(* String.prototype.includes: substring containment *)
includes(s, q) ==
  \E i \in 0..(Len(s) - Len(q)) : SubSeq(s, i + 1, i + Len(q)) = q

(* Array.prototype.includes *)
SeqIncludes(seq, v) == \E i \in 1..Len(seq) : seq[i] = v

(* Array.prototype.filter *)
RECURSIVE SelectSeqIdx(_, _)
SelectSeqIdx(s, keep) ==
  IF s = <<>> THEN <<>>
  ELSE LET rest == SelectSeqIdx(SubSeq(s, 1, Len(s) - 1), keep)
       IN IF Len(s) \in keep THEN Append(rest, s[Len(s)]) ELSE rest

(* Math.round of the rational n / d, d > 0: the nearest integer, halves up *)
RoundDiv(n, d) == (2 * n + d) \div (2 * d)

(* String.prototype.trim *)
IsWhitespace(c) == c = " "

trim(s) ==
  LET solid == {i \in 1..Len(s) : ~IsWhitespace(s[i])}
  IN IF solid = {} THEN <<>>
     ELSE SubSeq(s, CHOOSE i \in solid : \A j \in solid : i <= j,
                    CHOOSE i \in solid : \A j \in solid : i >= j)

(* the order of two sequences of numbers: -1, 0 or 1 *)
RECURSIVE CompareSeq(_, _)
CompareSeq(a, b) ==
  IF a = <<>> /\ b = <<>> THEN 0
  ELSE IF a = <<>> THEN -1
  ELSE IF b = <<>> THEN 1
  ELSE IF Head(a) < Head(b) THEN -1
  ELSE IF Head(a) > Head(b) THEN 1
  ELSE CompareSeq(Tail(a), Tail(b))

(* the UTF-16 code unit of a character *)
CodeUnit(c) ==
  CASE c = " " -> 32
    [] c = "1" -> 49
    [] c = "2" -> 50
    [] c = "3" -> 51
    [] c = "A" -> 65
    [] c = "B" -> 66
    [] c = "T" -> 84
    [] c = "Z" -> 90
    [] c = "a" -> 97
    [] c = "b" -> 98
    [] c = "t" -> 116
    [] c = "z" -> 122

(* a < b, a <= b, ... on strings compare code unit by code unit *)
StringCompare(a, b) ==
  CompareSeq([i \in 1..Len(a) |-> CodeUnit(a[i])], [i \in 1..Len(b) |-> CodeUnit(b[i])])

(* String.prototype.localeCompare in the default collation: blanks, then    *)
(* digits, then letters in alphabetical order whatever their case; strings  *)
(* that differ in case only have the lower-case letter first                *)
PrimaryWeight(c) ==
  CASE c = " " -> 0
    [] c = "1" -> 1
    [] c = "2" -> 2
    [] c = "3" -> 3
    [] LowerChar(c) = "a" -> 10
    [] LowerChar(c) = "b" -> 11
    [] c \in {"t", "T"} -> 12
    [] LowerChar(c) = "z" -> 13

CaseWeight(c) == IF c \in {"A", "B", "T", "Z"} THEN 1 ELSE 0

localeCompare(a, b) ==
  LET primary == CompareSeq([i \in 1..Len(a) |-> PrimaryWeight(a[i])],
                            [i \in 1..Len(b) |-> PrimaryWeight(b[i])])
  IN IF primary # 0 THEN primary
     ELSE CompareSeq([i \in 1..Len(a) |-> CaseWeight(a[i])],
                     [i \in 1..Len(b) |-> CaseWeight(b[i])])

-----------------------------------------------------------------------------
(* results.sort((a, b) => b.score - a.score): Array.prototype.sort is      *)
(* stable, so equal scores keep their relative order.                      *)

(* a sort that puts an element ahead of the elements it ties with *)
InsertByScoreDescAheadOfTies(sorted, x) ==
  LET k == IF \E i \in 1..Len(sorted) : sorted[i].score <= x.score
          THEN (CHOOSE i \in 1..Len(sorted) :
                  /\ sorted[i].score <= x.score
                  /\ \A j \in 1..(i - 1) : sorted[j].score > x.score) - 1
          ELSE Len(sorted)
  IN SubSeq(sorted, 1, k) \o <<x>> \o SubSeq(sorted, k + 1, Len(sorted))

InsertByScoreDesc(sorted, x) ==
  LET k == IF \E i \in 1..Len(sorted) : sorted[i].score < x.score
          THEN (CHOOSE i \in 1..Len(sorted) :
                  /\ sorted[i].score < x.score
                  /\ \A j \in 1..(i - 1) : sorted[j].score >= x.score) - 1
          ELSE Len(sorted)
  IN SubSeq(sorted, 1, k) \o <<x>> \o SubSeq(sorted, k + 1, Len(sorted))

(* the list left in the order it was built *)
SortByScoreDescOmitted(results) == results

RECURSIVE SortByScoreDesc(_)
SortByScoreDesc(results) ==
  IF results = <<>> THEN <<>>
  ELSE InsertByScoreDesc(SortByScoreDesc(SubSeq(results, 1, Len(results) - 1)),
                         results[Len(results)])

-----------------------------------------------------------------------------
(* Legacy store module *)

(* getAllEvidence: the parsed list, [] when nothing is stored *)
getAllEvidenceLegacy(ls) ==
  IF ls[STORAGE_KEY] = null THEN <<>> ELSE ls[STORAGE_KEY][1]

(* the four field tests of searchEvidence *)
filenameMatch(item, queryLower) == includes(toLowerCase(item.filename), queryLower)

summaryMatch(item, queryLower) ==
  IsDefined(item.summary) /\ includes(toLowerCase(ValueOf(item.summary)), queryLower)

tagMatch(item, queryLower) ==
  \E t \in 1..Len(item.tags) : includes(toLowerCase(item.tags[t]), queryLower)

extractedTextMatch(item, queryLower) ==
  IsDefined(item.extractedText)
    /\ includes(toLowerCase(ValueOf(item.extractedText)), queryLower)

(* the tag weight added once for every tag that matches *)
rawScorePerMatchingTag(item, queryLower) ==
  (IF filenameMatch(item, queryLower) THEN 50 ELSE 0)
  + (IF summaryMatch(item, queryLower) THEN 30 ELSE 0)
  + 20 * Cardinality({t \in 1..Len(item.tags) :
                        includes(toLowerCase(item.tags[t]), queryLower)})
  + (IF extractedTextMatch(item, queryLower) THEN 10 ELSE 0)

rawScore(item, queryLower) ==
  (IF filenameMatch(item, queryLower) THEN 50 ELSE 0)
  + (IF summaryMatch(item, queryLower) THEN 30 ELSE 0)
  + (IF tagMatch(item, queryLower) THEN 20 ELSE 0)
  + (IF extractedTextMatch(item, queryLower) THEN 10 ELSE 0)

(* Math.round((rawScore / MAX_RAW_SCORE) * 100) *)
normalizedScore(raw) == RoundDiv(raw * 100, MAX_RAW_SCORE)

(* every item pushed, the test rawScore > 0 left out *)
searchEvidenceKeepingZero(items, query) ==
  LET queryLower == toLowerCase(query)
  IN [i \in 1..Len(items) |->
        [item |-> items[i],
         score |-> normalizedScore(rawScore(items[i], queryLower))]]

searchEvidenceUnsorted(items, query) ==
  LET queryLower == toLowerCase(query)
      scored == [i \in 1..Len(items) |->
                   [item |-> items[i],
                    score |-> normalizedScore(rawScore(items[i], queryLower))]]
      keep == {i \in 1..Len(items) : rawScore(items[i], queryLower) > 0}
  IN SelectSeqIdx(scored, keep)

(* the keyword ranker reading the items of the vault service as well *)
searchEvidenceOverBothStores(ls, query) ==
  LET stored == IF ls[EVIDENCE_METADATA_KEY] = null THEN <<>>
                ELSE ValueOf(ls[EVIDENCE_METADATA_KEY])
      vaultItems == [i \in 1..Len(stored) |->
                       [id |-> stored[i].id,
                        filename |-> stored[i].vaultDocRef.filename,
                        summary |-> stored[i].summary,
                        tags |-> stored[i].tags,
                        extractedText |-> stored[i].extractedText]]
  IN SortByScoreDesc(searchEvidenceUnsorted(getAllEvidenceLegacy(ls) \o vaultItems, query))

searchEvidence(ls, query) ==
  SortByScoreDesc(searchEvidenceUnsorted(getAllEvidenceLegacy(ls), query))

-----------------------------------------------------------------------------
(* cosineSimilarity(a, b).  The loop accumulates dotProduct, normA, normB;  *)
(* magnitude = sqrt(normA) * sqrt(normB) is zero exactly when normA or     *)
(* normB is zero.  The result dotProduct / magnitude is kept exact as      *)
(* [num |-> dotProduct, den2 |-> normA * normB].                           *)

RECURSIVE SumTo(_, _)
SumTo(f, n) == IF n = 0 THEN 0 ELSE SumTo(f, n - 1) + f[n]

ZeroSimilarity == [num |-> 0, den2 |-> 1]

(* no length test, the loop running over the shorter vector *)
cosineSimilarityOverShorter(a, b) ==
  LET n == IF Len(a) < Len(b) THEN Len(a) ELSE Len(b)
      dotProduct == SumTo([i \in 1..n |-> a[i] * b[i]], n)
      normA == SumTo([i \in 1..n |-> a[i] * a[i]], n)
      normB == SumTo([i \in 1..n |-> b[i] * b[i]], n)
  IN IF normA * normB = 0 THEN ZeroSimilarity
     ELSE [num |-> dotProduct, den2 |-> normA * normB]

cosineSimilarity(a, b) ==
  IF Len(a) # Len(b) THEN ZeroSimilarity
  ELSE LET n == Len(a)
           dotProduct == SumTo([i \in 1..n |-> a[i] * b[i]], n)
           normA == SumTo([i \in 1..n |-> a[i] * a[i]], n)
           normB == SumTo([i \in 1..n |-> b[i] * b[i]], n)
       IN IF normA * normB = 0 THEN ZeroSimilarity
          ELSE [num |-> dotProduct, den2 |-> normA * normB]

(* similarity >= minScore, minScore in hundredths *)
SimilarityAtLeast(sim, minScore) ==
  IF minScore >= 0
  THEN sim.num >= 0 /\ 10000 * sim.num * sim.num >= minScore * minScore * sim.den2
  ELSE sim.num >= 0 \/ 10000 * sim.num * sim.num <= minScore * minScore * sim.den2

(* Math.round(similarity * 100) = floor(similarity * 100 + 1/2) *)
RoundSimilarityPercent(sim) ==
  IF sim.num >= 0
  THEN CHOOSE n \in 0..100 :
         /\ n = 0 \/ (2 * n - 1) * (2 * n - 1) * sim.den2 <= 40000 * sim.num * sim.num
         /\ n = 100 \/ (2 * n + 1) * (2 * n + 1) * sim.den2 > 40000 * sim.num * sim.num
  ELSE - (CHOOSE m \in 0..100 :
            /\ (2 * m + 1) * (2 * m + 1) * sim.den2 >= 40000 * sim.num * sim.num
            /\ m = 0 \/ (2 * m - 1) * (2 * m - 1) * sim.den2 < 40000 * sim.num * sim.num)

(* the per-item test of semanticSearch: an embedding that is present and    *)
(* not empty, and similarity >= minScore                                    *)
hasEmbedding(item) == IsDefined(item.embedding) /\ Len(ValueOf(item.embedding)) > 0

(* the threshold compared with the rounded percentage *)
semanticKeepOnRoundedScore(item, queryEmbedding, minScore) ==
  hasEmbedding(item)
    /\ RoundSimilarityPercent(cosineSimilarity(queryEmbedding, ValueOf(item.embedding)))
         >= minScore

semanticKeep(item, queryEmbedding, minScore) ==
  hasEmbedding(item)
    /\ SimilarityAtLeast(cosineSimilarity(queryEmbedding, ValueOf(item.embedding)), minScore)

semanticSearchOn(items, queryEmbedding, minScoreArg) ==
  LET minScore == IF minScoreArg = undefined THEN DefaultMinScore ELSE ValueOf(minScoreArg)
      keep == {i \in 1..Len(items) : semanticKeep(items[i], queryEmbedding, minScore)}
      scored == [i \in 1..Len(items) |->
                   [item |-> items[i],
                    score |-> IF i \in keep
                              THEN RoundSimilarityPercent(
                                     cosineSimilarity(queryEmbedding,
                                                      ValueOf(items[i].embedding)))
                              ELSE 0]]
  IN SortByScoreDesc(SelectSeqIdx(scored, keep))

semanticSearch(ls, queryEmbedding, minScoreArg) ==
  semanticSearchOn(getAllEvidenceLegacy(ls), queryEmbedding, minScoreArg)

-----------------------------------------------------------------------------
(* Local hybridSearch(query, queryEmbedding?, keywordWeight, semanticWeight) *)

(* scoreMap: a Map keeps its keys in insertion order; set() on a key that   *)
(* is present replaces the value in place.                                  *)
mapHas(m, id) == \E i \in 1..Len(m) : m[i].item.id = id

mapSet(m, entry) ==
  IF mapHas(m, entry.item.id)
  THEN [i \in 1..Len(m) |-> IF m[i].item.id = entry.item.id THEN entry ELSE m[i]]
  ELSE Append(m, entry)

RECURSIVE addKeywordResults(_, _)
addKeywordResults(m, keywordResults) ==
  IF keywordResults = <<>> THEN m
  ELSE addKeywordResults(
         mapSet(m, [item |-> Head(keywordResults).item,
                    keywordScore |-> Head(keywordResults).score,
                    semanticScore |-> 0]),
         Tail(keywordResults))

(* a semantic result entered without looking for a keyword entry *)
mergeSemanticWithoutLookup(m, r) ==
  Append(m, [item |-> r.item, keywordScore |-> 0, semanticScore |-> r.score])

mergeSemantic(m, r) ==
  IF mapHas(m, r.item.id)
  THEN [i \in 1..Len(m) |->
          IF m[i].item.id = r.item.id
          THEN [m[i] EXCEPT !.semanticScore = r.score] ELSE m[i]]
  ELSE Append(m, [item |-> r.item, keywordScore |-> 0, semanticScore |-> r.score])

RECURSIVE addSemanticResults(_, _)
addSemanticResults(m, semanticResults) ==
  IF semanticResults = <<>> THEN m
  ELSE addSemanticResults(mergeSemantic(m, Head(semanticResults)), Tail(semanticResults))

(* Math.round(keywordScore * keywordWeight + semanticScore * semanticWeight) *)
combinedScoreWeightsSwapped(keywordScore, semanticScore, keywordWeight, semanticWeight) ==
  RoundDiv(keywordScore * semanticWeight + semanticScore * keywordWeight, 100)

combinedScore(keywordScore, semanticScore, keywordWeight, semanticWeight) ==
  RoundDiv(keywordScore * keywordWeight + semanticScore * semanticWeight, 100)

(* the test combinedScore > 0 written as >= 0 *)
combineScoresKeepingZero(scoreMap, keywordWeight, semanticWeight) ==
  [i \in 1..Len(scoreMap) |->
     [item |-> scoreMap[i].item,
      score |-> combinedScore(scoreMap[i].keywordScore, scoreMap[i].semanticScore,
                              keywordWeight, semanticWeight)]]

combineScores(scoreMap, keywordWeight, semanticWeight) ==
  LET scored == [i \in 1..Len(scoreMap) |->
                   [item |-> scoreMap[i].item,
                    score |-> combinedScore(scoreMap[i].keywordScore,
                                            scoreMap[i].semanticScore,
                                            keywordWeight, semanticWeight)]]
      keep == {i \in 1..Len(scoreMap) : scored[i].score > 0}
  IN SelectSeqIdx(scored, keep)

(* without an embedding the keyword results handed back as they are *)
hybridSearchLegacyUnweightedFallback(ls, query, queryEmbedding, keywordWeightArg, semanticWeightArg) ==
  LET keywordWeight == IF keywordWeightArg = undefined
                       THEN DefaultKeywordWeight ELSE ValueOf(keywordWeightArg)
      semanticWeight == IF semanticWeightArg = undefined
                        THEN DefaultSemanticWeight ELSE ValueOf(semanticWeightArg)
      keywordResults == searchEvidence(ls, query)
  IN IF ~IsDefined(queryEmbedding) THEN keywordResults
     ELSE SortByScoreDesc(combineScores(
            addSemanticResults(addKeywordResults(<<>>, keywordResults),
                               semanticSearch(ls, ValueOf(queryEmbedding),
                                              Some(HybridMinScore))),
            keywordWeight, semanticWeight))

hybridSearchLegacy(ls, query, queryEmbedding, keywordWeightArg, semanticWeightArg) ==
  LET keywordWeight == IF keywordWeightArg = undefined
                       THEN DefaultKeywordWeight ELSE ValueOf(keywordWeightArg)
      semanticWeight == IF semanticWeightArg = undefined
                        THEN DefaultSemanticWeight ELSE ValueOf(semanticWeightArg)
      keywordResults == searchEvidence(ls, query)
      semanticResults == IF IsDefined(queryEmbedding)
                         THEN semanticSearch(ls, ValueOf(queryEmbedding),
                                             Some(HybridMinScore))
                         ELSE <<>>
      scoreMap == addSemanticResults(addKeywordResults(<<>>, keywordResults),
                                     semanticResults)
  IN SortByScoreDesc(combineScores(scoreMap, keywordWeight, semanticWeight))

-----------------------------------------------------------------------------
(* Vault service module *)

(* getAllEvidenceMetadata: the parsed list, [] when nothing is stored *)
getAllEvidenceMetadata(ls) ==
  IF ls[EVIDENCE_METADATA_KEY] = null THEN <<>> ELSE ls[EVIDENCE_METADATA_KEY][1]

metadataToEvidenceItem(metadata) ==
  [id |-> metadata.id,
   filename |-> metadata.vaultDocRef.filename,
   category |-> metadata.category,
   tags |-> metadata.tags,
   relevanceScore |-> metadata.relevanceScore,
   extractedText |-> metadata.extractedText,
   summary |-> metadata.summary,
   dateDetected |-> metadata.dateDetected,
   status |-> IF metadata.vaultDocRef.status = "ready" THEN "completed"
              ELSE IF metadata.vaultDocRef.status = "failed" THEN "failed"
              ELSE "processing",
   createdAt |-> metadata.createdAt]

(* a value of localStorage is falsy when it is null or the empty string *)
Truthy(v) == v # null /\ v[1] # ""

(* getAllEvidence: every metadata record as an EvidenceItem *)
getAllEvidence(ls) ==
  LET metadata == getAllEvidenceMetadata(ls)
  IN [i \in 1..Len(metadata) |-> metadataToEvidenceItem(metadata[i])]

(* items.filter(item => item.id !== id), the test on the object id instead *)
withoutIdByObjectId(items, id) ==
  SelectSeq(items, LAMBDA item : item.vaultDocRef.objectId # id)

(* items.filter(item => item.id !== id) *)
withoutId(items, id) == SelectSeq(items, LAMBDA item : item.id # id)

(* deleteEvidenceMetadata(id): what it returns and the localStorage it leaves *)
deleteEvidenceMetadata(ls, id) ==
  LET items == getAllEvidenceMetadata(ls)
      filtered == withoutId(items, id)
  IN IF Len(filtered) = Len(items)
     THEN [ret |-> FALSE, ls |-> ls]
     ELSE [ret |-> TRUE, ls |-> [ls EXCEPT ![EVIDENCE_METADATA_KEY] = <<filtered>>]]

-----------------------------------------------------------------------------
(* filterEvidence, the same code in both store modules *)

(* item.dateDetected || item.createdAt *)
itemDate(item) ==
  IF IsDefined(item.dateDetected) /\ ValueOf(item.dateDetected) # <<>>
  THEN ValueOf(item.dateDetected) ELSE item.createdAt

(* filters.dateRange.start, filters.dateRange.end and filters.searchQuery   *)
(* count when they are neither undefined nor the empty string               *)
hasStart(filters) ==
  IsDefined(filters.dateRange.start) /\ ValueOf(filters.dateRange.start) # <<>>

hasEnd(filters) ==
  IsDefined(filters.dateRange.end) /\ ValueOf(filters.dateRange.end) # <<>>

(* the end of the range taken as exclusive *)
notAfterEndExclusive(item, filters) ==
  StringCompare(itemDate(item), ValueOf(filters.dateRange.end)) < 0

(* itemDate <= filters.dateRange.end *)
notAfterEnd(item, filters) ==
  StringCompare(itemDate(item), ValueOf(filters.dateRange.end)) <= 0

(* itemDate >= filters.dateRange.start *)
notBeforeStart(item, filters) ==
  StringCompare(itemDate(item), ValueOf(filters.dateRange.start)) >= 0

matchesSearchQuery(item, query) ==
  \/ includes(toLowerCase(item.filename), query)
  \/ IsDefined(item.summary) /\ includes(toLowerCase(ValueOf(item.summary)), query)
  \/ IsDefined(item.extractedText)
       /\ includes(toLowerCase(ValueOf(item.extractedText)), query)
  \/ \E t \in 1..Len(item.tags) : includes(toLowerCase(item.tags[t]), query)

(* the comparator of items.sort *)
compareItems(a, b, filters) ==
  LET comparison ==
        CASE filters.sortBy = "date" -> localeCompare(itemDate(a), itemDate(b))
          [] filters.sortBy = "relevance" -> a.relevanceScore - b.relevanceScore
          [] filters.sortBy = "name" -> localeCompare(a.filename, b.filename)
          [] OTHER -> 0
  IN IF filters.sortOrder = "asc" THEN comparison ELSE 0 - comparison

(* Array.prototype.sort is stable: x goes before the first element that the *)
(* comparator puts after it                                                  *)
insertItem(sorted, x, filters) ==
  LET later == {i \in 1..Len(sorted) : compareItems(sorted[i], x, filters) > 0}
      k == IF later = {} THEN Len(sorted)
           ELSE (CHOOSE i \in later : \A j \in later : i <= j) - 1
  IN SubSeq(sorted, 1, k) \o <<x>> \o SubSeq(sorted, k + 1, Len(sorted))

RECURSIVE sortItems(_, _)
sortItems(items, filters) ==
  IF items = <<>> THEN <<>>
  ELSE insertItem(sortItems(SubSeq(items, 1, Len(items) - 1), filters),
                  items[Len(items)], filters)

(* the filter steps of filterEvidence, in the order of the code *)
filterItems(items, filters) ==
  LET byCategory ==
        IF Len(filters.categories) > 0
        THEN SelectSeq(items, LAMBDA item : SeqIncludes(filters.categories, item.category))
        ELSE items
      byTag ==
        IF Len(filters.tags) > 0
        THEN SelectSeq(byCategory,
               LAMBDA item : \E t \in 1..Len(filters.tags) :
                               SeqIncludes(item.tags, filters.tags[t]))
        ELSE byCategory
      fromStart ==
        IF hasStart(filters)
        THEN SelectSeq(byTag, LAMBDA item : notBeforeStart(item, filters))
        ELSE byTag
      toEnd ==
        IF hasEnd(filters)
        THEN SelectSeq(fromStart, LAMBDA item : notAfterEnd(item, filters))
        ELSE fromStart
      bySearch ==
        IF filters.searchQuery # <<>>
        THEN SelectSeq(toEnd,
               LAMBDA item : matchesSearchQuery(item, toLowerCase(filters.searchQuery)))
        ELSE toEnd
  IN sortItems(bySearch, filters)

(* filterEvidence of the vault service module *)
filterEvidence(ls, filters) == filterItems(getAllEvidence(ls), filters)

(* filterEvidence of the legacy store module *)
filterEvidenceLegacy(ls, filters) == filterItems(getAllEvidenceLegacy(ls), filters)

(* searchVault sends its request only with an API key and a vault id *)
searchVaultSends(ls) == Truthy(ls[API_KEY_STORAGE_KEY]) /\ Truthy(ls[VAULT_ID_KEY])

(* searchVault from the answer of fetch on: [] when the request threw or    *)
(* the response is not ok, otherwise data.results || []                     *)
searchVaultResponse(response) ==
  IF response.kind # "ok" THEN <<>>
  ELSE IF IsDefined(response.results) THEN ValueOf(response.results)
  ELSE <<>>

(* the request sent and its answer used whatever localStorage holds *)
searchVaultWithoutKeyCheck(ls, response) == searchVaultResponse(response)

(* searchVault: [] without an API key or a vault id, else the answer's list *)
searchVault(ls, response) ==
  IF ~Truthy(ls[API_KEY_STORAGE_KEY]) THEN <<>>
  ELSE IF ~Truthy(ls[VAULT_ID_KEY]) THEN <<>>
  ELSE searchVaultResponse(response)

(* filters?.categories?.length and filters?.tags?.length *)
activeCategories(filters) ==
  IF IsDefined(filters) /\ IsDefined(ValueOf(filters).categories)
  THEN ValueOf(ValueOf(filters).categories) ELSE <<>>

(* the tag filter never applied *)
activeTagsIgnored(filters) == <<>>

activeTags(filters) ==
  IF IsDefined(filters) /\ IsDefined(ValueOf(filters).tags)
  THEN ValueOf(ValueOf(filters).tags) ELSE <<>>

(* a lookup that also accepts the local primary key *)
findMetadataByLocalIdToo(allMetadata, objectId) ==
  LET hits == {i \in 1..Len(allMetadata) :
                 \/ allMetadata[i].vaultDocRef.objectId = objectId
                 \/ allMetadata[i].id = objectId}
  IN IF hits = {} THEN undefined
     ELSE Some(allMetadata[CHOOSE i \in hits : \A j \in hits : i <= j])

(* allMetadata.find(m => m.vaultDocRef.objectId === result.objectId) *)
findMetadata(allMetadata, objectId) ==
  LET hits == {i \in 1..Len(allMetadata) : allMetadata[i].vaultDocRef.objectId = objectId}
  IN IF hits = {} THEN undefined
     ELSE Some(allMetadata[CHOOSE i \in hits : \A j \in hits : i <= j])

(* the percentage cut off instead of rounded *)
remoteDisplayScoreTruncated(score) == score \div 10

(* Math.round(result.score * 100), result.score in thousandths *)
remoteDisplayScore(score) == RoundDiv(score, 10)

tempItem(result) ==
  [id |-> "vault-" \o result.objectId,
   filename |-> IF result.filename = "" THEN "Unknown document" ELSE result.filename,
   category |-> "other",
   tags |-> <<>>,
   relevanceScore |-> remoteDisplayScore(result.score),
   status |-> "completed",
   needsSync |-> TRUE]

(* the loop body with the filter checks of the unmatched branch left out *)
processVaultResultOrphansUnfiltered(allMetadata, filters, result) ==
  LET metadata == findMetadata(allMetadata, result.objectId)
      categories == activeCategories(filters)
      tags == activeTags(filters)
  IN IF IsDefined(metadata)
     THEN IF Len(categories) > 0 /\ ~SeqIncludes(categories, ValueOf(metadata).category)
          THEN <<>>
          ELSE IF Len(tags) > 0
                  /\ ~\E t \in 1..Len(tags) : SeqIncludes(ValueOf(metadata).tags, tags[t])
          THEN <<>>
          ELSE << [item |-> metadataToEvidenceItem(ValueOf(metadata)),
                   score |-> remoteDisplayScore(result.score)] >>
     ELSE << [item |-> tempItem(result),
              score |-> remoteDisplayScore(result.score)] >>

(* one iteration of the loop over vaultResults: the entries it pushes *)
processVaultResult(allMetadata, filters, result) ==
  LET metadata == findMetadata(allMetadata, result.objectId)
      categories == activeCategories(filters)
      tags == activeTags(filters)
  IN IF IsDefined(metadata)
     THEN IF Len(categories) > 0 /\ ~SeqIncludes(categories, ValueOf(metadata).category)
          THEN <<>>
          ELSE IF Len(tags) > 0
                  /\ ~\E t \in 1..Len(tags) : SeqIncludes(ValueOf(metadata).tags, tags[t])
          THEN <<>>
          ELSE << [item |-> metadataToEvidenceItem(ValueOf(metadata)),
                   score |-> remoteDisplayScore(result.score)] >>
     ELSE IF Len(categories) > 0 /\ ~SeqIncludes(categories, "other")
          THEN <<>>
          ELSE IF Len(tags) > 0
          THEN <<>>
          ELSE << [item |-> tempItem(result),
                   score |-> remoteDisplayScore(result.score)] >>

RECURSIVE processVaultResults(_, _, _)
processVaultResults(allMetadata, filters, vaultResults) ==
  IF vaultResults = <<>> THEN <<>>
  ELSE processVaultResult(allMetadata, filters, Head(vaultResults))
         \o processVaultResults(allMetadata, filters, Tail(vaultResults))

(* the combiner falling back to the keyword ranker by itself *)
combineVaultResultsWithFallback(ls, query, filters, vaultResults) ==
  IF vaultResults = <<>> THEN searchEvidence(ls, query)
  ELSE SortByScoreDesc(processVaultResults(getAllEvidenceMetadata(ls), filters,
                                           vaultResults))

(* hybridSearch from the answer of searchVault on: the metadata is read     *)
(* then, the loop runs, the results are sorted                              *)
combineVaultResults(ls, query, filters, vaultResults) ==
  LET allMetadata == getAllEvidenceMetadata(ls)
  IN SortByScoreDesc(processVaultResults(allMetadata, filters, vaultResults))

hybridSearch(ls, query, filters, response) ==
  combineVaultResults(ls, query, filters, searchVault(ls, response))

(* removeApiKey: the two removeItem calls *)
removeApiKey(ls) ==
  [ls EXCEPT ![API_KEY_STORAGE_KEY] = null, ![DATABASE_PROJECT_ID_KEY] = null]

(* data.database?.projectId of the connect answer, when it is truthy *)
connectProjectId(response) ==
  IF response.kind = "ok" /\ IsDefined(response.database)
     /\ IsDefined(ValueOf(response.database).projectId)
     /\ ValueOf(ValueOf(response.database).projectId) # ""
  THEN ValueOf(response.database).projectId
  ELSE undefined

(* verifyApiKey from the answer of fetch('/api/case-dev/connect') on: what  *)
(* it returns and the localStorage it leaves                                *)
verifyApiKey(ls, response) ==
  IF response.kind # "ok" THEN [ret |-> FALSE, ls |-> ls]
  ELSE IF IsDefined(connectProjectId(response))
  THEN [ret |-> TRUE,
        ls |-> [ls EXCEPT ![DATABASE_PROJECT_ID_KEY] = connectProjectId(response)]]
  ELSE [ret |-> TRUE, ls |-> ls]

-----------------------------------------------------------------------------
(* Inputs *)

(* Dates are strings: <<"2">> stands for the day '2024-01-02' as the        *)
(* classifier writes dateDetected, <<"2", "T">> for a time stamp of that day *)
(* as new Date().toISOString() writes createdAt ('2024-01-02T...').          *)
Day1 == <<"1">>
Day2 == <<"2">>
Day3 == <<"3">>
Stamp1 == <<"1", "T">>
Stamp2 == <<"2", "T">>

Content(filename, summary, tags, extractedText, embedding) ==
  [filename |-> filename, summary |-> summary, tags |-> tags,
   extractedText |-> extractedText, embedding |-> embedding,
   category |-> "other", relevanceScore |-> 50, status |-> "completed",
   dateDetected |-> undefined, createdAt |-> Stamp1]

QueryVector == <<1, 0, 0, 0>>
SameDirection == <<2, 0, 0, 0>>
AtThreshold30 == <<3, 9, 3, 1>>
Below30 == <<3, 8, 5, 2>>
AtThreshold20 == <<1, 2, 2, 4>>
Below20 == <<1, 0, 3, 4>>
ZeroVector == <<0, 0, 0, 0>>
ShortVector == <<1, 0>>

AllFourFields(embedding) ==
  Content(<<"A", "b">>, Some(<<"a", " ", "b">>), << <<"a">>, <<"b", "a">> >>,
          Some(<<"a", "A">>), embedding)

NoField(embedding) == Content(<<"b">>, undefined, <<>>, undefined, embedding)

(* documents of the legacy store: every combination the scorers tell apart *)
LocalDocPool ==
  { NoField(undefined),
    Content(<<"A", "b">>, undefined, <<>>, undefined, undefined),
    Content(<<"b">>, Some(<<"a", " ", "b">>), <<>>, undefined, undefined),
    Content(<<"b">>, undefined, << <<"a">>, <<"b", "a">> >>, undefined, undefined),
    Content(<<"b">>, undefined, <<>>, Some(<<"a", "A">>), Some(Below20)),
    AllFourFields(undefined),
    AllFourFields(Some(SameDirection)),
    NoField(Some(SameDirection)),
    NoField(Some(AtThreshold30)),
    NoField(Some(Below30)),
    NoField(Some(AtThreshold20)),
    NoField(Some(ZeroVector)),
    NoField(Some(ShortVector)),
    NoField(Some(<<>>)) }

(* a few of them, for the runs that also hold the vault side *)
CoarseDocPool ==
  { Content(<<"A", "b">>, undefined, <<>>, undefined, undefined),
    Content(<<"b">>, undefined, <<>>, Some(<<"a", "A">>), Some(AtThreshold30)),
    AllFourFields(undefined),
    AllFourFields(Some(SameDirection)),
    NoField(Some(SameDirection)) }

Queries == { <<>>, <<" ">>, <<"a">>, <<"A", "B">>, <<"z">> }

QueryEmbeddings == { QueryVector, ZeroVector, ShortVector }

MinScoreArgs == { undefined, Some(HybridMinScore), Some(0) }

(* keywordWeight and semanticWeight as passed; undefined takes the default *)
WeightArgs ==
  { <<undefined, undefined>>, <<Some(100), Some(100)>>,
    <<Some(5), Some(95)>>, <<Some(0), Some(100)>> }

VectorPool ==
  { QueryVector, SameDirection, AtThreshold30, ZeroVector, ShortVector, <<>>, <<0, 1, 0, 0>> }

MetadataWith(objectId, filename, category, tags, relevanceScore, summary, extractedText, dateDetected, createdAt) ==
  [vaultDocRef |-> [objectId |-> objectId, filename |-> filename, status |-> "ready"],
   category |-> category, tags |-> tags, relevanceScore |-> relevanceScore,
   summary |-> summary, extractedText |-> extractedText,
   dateDetected |-> dateDetected, createdAt |-> createdAt]

Metadata(objectId, category, tags) ==
  MetadataWith(objectId, <<"b">>, category, tags, 50, undefined, undefined,
               undefined, Stamp1)

T1 == <<"t", "1">>

MetadataPool ==
  { Metadata("o1", "contract", <<T1>>),
    Metadata("o1", "other", <<>>),
    Metadata("o2", "other", <<T1>>) }

VaultResult(objectId, score) ==
  [objectId |-> objectId, filename |-> "doc.pdf", score |-> score]

(* object ids of the vault; "m1" is also the id generateId gives the first   *)
(* local metadata record                                                     *)
VaultResultPool ==
  { VaultResult(o, sc) : o \in {"o1", "o2", "o3", "m1"}, sc \in {5, 920} }

RECURSIVE SeqsUpTo(_, _)
SeqsUpTo(S, n) ==
  IF n = 0 THEN { <<>> }
  ELSE LET shorter == SeqsUpTo(S, n - 1)
       IN shorter \cup { Append(q, x) : q \in shorter, x \in S }

(* what /api/vault/search sends as results: CaseDevClient.searchVault keeps *)
(* one entry per object id, each with a filename, sorted by score descending *)
IsRouteResult(r) ==
  /\ \A i \in 1..Len(r), j \in 1..Len(r) : i # j => r[i].objectId # r[j].objectId
  /\ \A i \in 1..(Len(r) - 1) : r[i].score >= r[i + 1].score

(* the outcomes of fetch('/api/vault/search'): the request throws, the      *)
(* response is not ok, or it is ok and carries the route's results          *)
Responses ==
  { [kind |-> "error"], [kind |-> "notok"] }
  \cup { [kind |-> "ok", results |-> Some(r)] :
           r \in {x \in SeqsUpTo(VaultResultPool, MaxRemote) : IsRouteResult(x)} }

(* metadata records that the steps of filterEvidence tell apart *)
FilterMetadataPool ==
  { MetadataWith("o1", <<"a">>, "contract", <<T1>>, 90, undefined, undefined,
                 Some(Day1), Stamp2),
    MetadataWith("o2", <<"A", "b">>, "other", <<>>, 50, Some(<<"z">>), undefined,
                 undefined, Stamp2),
    MetadataWith("o3", <<"b">>, "other", << <<"Z", "a">> >>, 50, undefined,
                 Some(<<"B", "z">>), Some(Day3), Stamp1),
    MetadataWith("o4", <<"b">>, "contract", <<T1, <<"b">> >>, 70, undefined, undefined,
                 Some(<<>>), Stamp1),
    MetadataWith("o5", <<"a">>, "email", <<>>, 50, Some(<<"a">>), undefined,
                 Some(Day2), Stamp1) }

DateRanges ==
  { [start |-> undefined, end |-> undefined],
    [start |-> Some(Day2), end |-> undefined],
    [start |-> undefined, end |-> Some(Day2)],
    [start |-> Some(Day1), end |-> Some(Day2)],
    [start |-> Some(<<>>), end |-> Some(<<>>)] }

FilterStates ==
  [categories : {<<>>, <<"contract">>, <<"contract", "email">>},
   tags : {<<>>, <<T1>>},
   dateRange : DateRanges,
   searchQuery : {<<>>, <<"a">>, <<"Z">>, <<" ">>},
   sortBy : {"date", "relevance", "name"},
   sortOrder : {"asc", "desc"}]

DeleteIds == {"m1", "m2", "m3", "o1", "non-existent"}

(* the answers of fetch('/api/case-dev/connect') *)
ConnectResponses ==
  { [kind |-> "error"], [kind |-> "notok"],
    [kind |-> "ok", database |-> undefined, vault |-> undefined],
    [kind |-> "ok", database |-> Some([projectId |-> undefined]), vault |-> undefined],
    [kind |-> "ok", database |-> Some([projectId |-> Some("proj-123")]),
     vault |-> Some([vaultId |-> Some("v1")])],
    [kind |-> "ok", database |-> Some([projectId |-> Some("proj-new-123")]),
     vault |-> Some([vaultId |-> Some("vault-new-456")])] }

ApiKeys == { "sk_case_key", "sk_case_other_key", "sk_case_third_key" }

(* the answers of fetch('/api/embeddings') *)
EmbeddingResponses ==
  { [kind |-> "error"], [kind |-> "notok"],
    [kind |-> "ok", embedding |-> Some(QueryVector)] }

(* the inputs of the runs with the page component *)
PageDocPool ==
  { Content(<<"A", "b">>, undefined, <<>>, undefined, undefined),
    NoField(Some(SameDirection)) }

PageMetadataPool == { Metadata("o1", "contract", <<T1>>) }

PageQueries == { <<" ">>, <<"a">> }

OverlapQueries == { <<"a">>, <<"z">> }

PageResponses ==
  { [kind |-> "error"], [kind |-> "notok"],
    [kind |-> "ok", results |-> undefined],
    [kind |-> "ok", results |-> Some(<<>>)],
    [kind |-> "ok", results |-> Some(<<VaultResult("o1", 920)>>)],
    [kind |-> "ok", results |-> Some(<<VaultResult("o3", 920)>>)] }

FailedResponses == { [kind |-> "error"], [kind |-> "notok"] }

(* the inputs of the runs with the vault and the database *)
ProjectResponse ==
  [kind |-> "ok", database |-> Some([projectId |-> Some("proj-123")]),
   vault |-> Some([vaultId |-> Some("v1")])]

ServiceAnswers == { "ok", "notok" }

RecordIds == { "m" \o ToString(n) : n \in 1..(MaxDocs + 1) }

OrphanResponse == [kind |-> "ok", results |-> Some(<<VaultResult("o3", 920)>>)]

ResolvedResponse == [kind |-> "ok", results |-> Some(<<VaultResult("o1", 920)>>)]

FilteredResponses == { [kind |-> "error"], ResolvedResponse, OrphanResponse }

FilterArgs ==
  { undefined,
    Some([categories |-> Some(<<"other">>), tags |-> undefined]),
    Some([categories |-> Some(<<"contract">>), tags |-> undefined]),
    Some([categories |-> undefined, tags |-> Some(<<T1>>)]),
    Some([categories |-> Some(<<>>), tags |-> Some(<<>>)]),
    Some([categories |-> Some(<<"other">>), tags |-> Some(<<T1>>)]) }

-----------------------------------------------------------------------------
(* State *)

IdleCall == [op |-> "idle"]

Idle == call.op = "idle"

(* the useState initial values of the page component; lastSearch is what   *)
(* the handler's console log tells of the last search that finished: its    *)
(* query, the branch that produced the display and the answer it got;       *)
(* lastSubmitted is the query of the last search that handleSearch started  *)
InitialFilters ==
  [categories |-> <<>>, tags |-> <<>>,
   dateRange |-> [start |-> undefined, end |-> undefined],
   searchQuery |-> <<>>, sortBy |-> "date", sortOrder |-> "desc"]

InitialPage ==
  [evidence |-> <<>>, searchResults |-> <<>>, isSearchResult |-> FALSE,
   isSearching |-> FALSE, filters |-> InitialFilters,
   lastSearch |-> [branch |-> "none"], lastSubmitted |-> undefined]

(* what the case.dev services hold: the objects of the vault in the order  *)
(* the listing gives them, the rows of the evidence_metadata table and the  *)
(* number of objects the vault has stored so far                            *)
InitialCloud == [objects |-> <<>>, rows |-> <<>>, stored |-> 0]

Init ==
  /\ localStorage = [k \in StorageKeys |-> null]
  /\ call = IdleCall
  /\ page = InitialPage
  /\ pending = <<>>
  /\ cloud = InitialCloud

documentCount == Len(getAllEvidenceLegacy(localStorage)) + Len(getAllEvidenceMetadata(localStorage))

(* generateId is modelled by what its callers rely on: a value no stored   *)
(* record carries (the first free number)                                   *)
generateIdLegacy(ls) == "e" \o ToString(Len(getAllEvidenceLegacy(ls)) + 1)

generateId(ls) ==
  LET items == getAllEvidenceMetadata(ls)
      used == {items[i].id : i \in 1..Len(items)}
      free == {n \in 1..(Len(items) + 1) : ("m" \o ToString(n)) \notin used}
  IN "m" \o ToString(CHOOSE n \in free : \A k \in free : n <= k)

-----------------------------------------------------------------------------
(* Operations that write localStorage *)

(* saveApiKey(key) *)
SaveApiKey(key) ==
  /\ Idle
  /\ localStorage' = [localStorage EXCEPT ![API_KEY_STORAGE_KEY] = <<key>>]
  /\ UNCHANGED <<call, page, pending, cloud>>

(* getOrCreateVault, when /api/vault/init answers with a vaultId *)
GetOrCreateVault ==
  /\ Idle
  /\ Truthy(localStorage[API_KEY_STORAGE_KEY])
  /\ localStorage' = [localStorage EXCEPT ![VAULT_ID_KEY] = <<"v1">>]
  /\ UNCHANGED <<call, page, pending, cloud>>

(* removeApiKey() *)
RemoveApiKey ==
  /\ Idle
  /\ localStorage' = removeApiKey(localStorage)
  /\ UNCHANGED <<call, page, pending, cloud>>

(* verifyApiKey(key), at the answer of the connect endpoint *)
VerifyApiKey(response) ==
  /\ Idle
  /\ LET done == verifyApiKey(localStorage, response)
     IN /\ localStorage' = done.ls
        /\ call' = [op |-> "verifyApiKey", response |-> response, ret |-> done.ret]
  /\ UNCHANGED <<page, pending, cloud>>

(* deleteEvidenceMetadata(id); `before` is the list it read *)
DeleteEvidenceMetadata(id) ==
  /\ Idle
  /\ LET done == deleteEvidenceMetadata(localStorage, id)
     IN /\ localStorage' = done.ls
        /\ call' = [op |-> "deleteEvidenceMetadata", id |-> id,
                    before |-> getAllEvidenceMetadata(localStorage), ret |-> done.ret]
  /\ UNCHANGED <<page, pending, cloud>>

(* addEvidence(evidence) of the legacy store, the id from generateId *)
AddEvidence(content) ==
  /\ Idle
  /\ documentCount < MaxDocs
  /\ LET items == getAllEvidenceLegacy(localStorage)
         evidence == [id |-> generateIdLegacy(localStorage)] @@ content
     IN localStorage' = [localStorage EXCEPT ![STORAGE_KEY] = <<Append(items, evidence)>>]
  /\ UNCHANGED <<call, page, pending, cloud>>

(* addEvidenceMetadata(metadata), the id from generateId *)
AddEvidenceMetadata(content) ==
  /\ Idle
  /\ documentCount < MaxDocs
  /\ LET items == getAllEvidenceMetadata(localStorage)
         metadata == [id |-> generateId(localStorage)] @@ content
     IN localStorage' = [localStorage EXCEPT ![EVIDENCE_METADATA_KEY] = <<Append(items, metadata)>>]
  /\ UNCHANGED <<call, page, pending, cloud>>

-----------------------------------------------------------------------------
(* Calls of the rankers: the call and what it returned stay in `call`      *)
(* until the caller has taken the result.                                   *)

(* a ranker that saves the documents it ranked, as saveAllEvidence would *)
CallSearchEvidenceSavingMatches(query) ==
  /\ Idle
  /\ LET ret == searchEvidence(localStorage, query)
     IN /\ call' = [op |-> "searchEvidence", query |-> query, ret |-> ret]
        /\ localStorage' = [localStorage EXCEPT ![STORAGE_KEY] =
                              <<[i \in 1..Len(ret) |-> ret[i].item]>>]
  /\ UNCHANGED <<page, pending, cloud>>

CallSearchEvidence(query) ==
  /\ Idle
  /\ call' = [op |-> "searchEvidence", query |-> query,
              ret |-> searchEvidence(localStorage, query)]
  /\ UNCHANGED <<localStorage, page, pending, cloud>>

CallCosineSimilarity(a, b) ==
  /\ Idle
  /\ call' = [op |-> "cosineSimilarity", a |-> a, b |-> b,
              ret |-> cosineSimilarity(a, b)]
  /\ UNCHANGED <<localStorage, page, pending, cloud>>

CallSemanticSearch(queryEmbedding, minScoreArg) ==
  /\ Idle
  /\ call' = [op |-> "semanticSearch", queryEmbedding |-> queryEmbedding,
              minScore |-> minScoreArg,
              ret |-> semanticSearch(localStorage, queryEmbedding, minScoreArg)]
  /\ UNCHANGED <<localStorage, page, pending, cloud>>

CallHybridSearchLegacy(query, queryEmbedding, weights) ==
  /\ Idle
  /\ call' = [op |-> "hybridSearchLegacy", query |-> query,
              queryEmbedding |-> queryEmbedding,
              keywordWeight |-> weights[1], semanticWeight |-> weights[2],
              ret |-> hybridSearchLegacy(localStorage, query, queryEmbedding,
                                         weights[1], weights[2])]
  /\ UNCHANGED <<localStorage, page, pending, cloud>>

CallSearchVault(query, response) ==
  /\ Idle
  /\ call' = [op |-> "searchVault", query |-> query, response |-> response,
              ret |-> searchVault(localStorage, response)]
  /\ UNCHANGED <<localStorage, page, pending, cloud>>

CallFilterEvidence(filters) ==
  /\ Idle
  /\ call' = [op |-> "filterEvidence", filters |-> filters,
              ret |-> filterEvidence(localStorage, filters)]
  /\ UNCHANGED <<localStorage, page, pending, cloud>>

CallHybridSearch(query, filters, response) ==
  /\ Idle
  /\ call' = [op |-> "hybridSearch", query |-> query, filters |-> filters,
              response |-> response,
              ret |-> hybridSearch(localStorage, query, filters, response)]
  /\ UNCHANGED <<localStorage, page, pending, cloud>>

(* the caller takes the result *)
Return ==
  /\ ~Idle
  /\ call' = IdleCall
  /\ UNCHANGED <<localStorage, page, pending, cloud>>

-----------------------------------------------------------------------------
(* The page component: loadEvidence and handleSearch.  The tag list and the *)
(* category counts that loadEvidence also refreshes are not part of `page`. *)

(* loadEvidence: the vault items, then the legacy items whose id no vault   *)
(* item has, sorted together                                                *)
mergedEvidence(ls, filters) ==
  LET vaultItems == filterEvidence(ls, filters)
      legacyItems == filterEvidenceLegacy(ls, filters)
      vaultIds == {vaultItems[i].id : i \in 1..Len(vaultItems)}
  IN sortItems(vaultItems \o SelectSeq(legacyItems, LAMBDA item : item.id \notin vaultIds),
               filters)

loadEvidence(pg, ls) ==
  [pg EXCEPT !.evidence = mergedEvidence(ls, pg.filters),
             !.isSearchResult = FALSE,
             !.searchResults = <<>>]

(* new Map(results.map(r => [r.item.id, r.score])): a key that comes again  *)
(* keeps its place and takes the later value                                *)
RECURSIVE scoreMapOf(_)
scoreMapOf(results) ==
  IF results = <<>> THEN <<>>
  ELSE LET m == scoreMapOf(SubSeq(results, 1, Len(results) - 1))
           r == results[Len(results)]
       IN IF \E i \in 1..Len(m) : m[i].id = r.item.id
          THEN [i \in 1..Len(m) |->
                  IF m[i].id = r.item.id THEN [id |-> r.item.id, score |-> r.score]
                  ELSE m[i]]
          ELSE Append(m, [id |-> r.item.id, score |-> r.score])

(* setSearchResults, setEvidence, setIsSearchResult(true) and, in the       *)
(* finally block, setIsSearching(false); an empty result list gives the     *)
(* empty map and the empty list                                             *)
showResults(pg, results, lastSearch) ==
  [pg EXCEPT !.searchResults = scoreMapOf(results),
             !.evidence = [i \in 1..Len(results) |-> results[i].item],
             !.isSearchResult = TRUE,
             !.isSearching = FALSE,
             !.lastSearch = lastSearch]

(* the filters handleSearch hands to hybridSearch *)
searchFilters(filters) ==
  Some([categories |-> IF Len(filters.categories) > 0 THEN Some(filters.categories)
                       ELSE undefined,
        tags |-> IF Len(filters.tags) > 0 THEN Some(filters.tags) ELSE undefined])

(* handleSearch of the vault branch from the answer of hybridSearch on *)
afterHybridSearch(pg, ls, query, results, outcome) ==
  IF Len(results) > 0
  THEN showResults(pg, results,
                   [branch |-> "vault", query |-> query, outcome |-> outcome])
  ELSE showResults(pg, searchEvidence(ls, query),
                   [branch |-> "fallback", query |-> query, outcome |-> outcome])

(* handleSearch up to its first request.  A blank query reloads the list.   *)
(* With a vault id and no API key searchVault answers [] without a request, *)
(* so the handler runs to its end at once.                                  *)
HandleSearchStart(query) ==
  /\ Idle
  /\ UNCHANGED <<localStorage, call, cloud>>
  /\ IF trim(query) = <<>>
     THEN /\ page' = loadEvidence(page, localStorage)
          /\ UNCHANGED pending
     ELSE IF Truthy(localStorage[VAULT_ID_KEY])
     THEN IF searchVaultSends(localStorage)
          THEN /\ Len(pending) < MaxPending
               /\ page' = [page EXCEPT !.isSearching = TRUE,
                                       !.lastSubmitted = Some(query)]
               /\ pending' = Append(pending, [branch |-> "vault", query |-> query,
                                               filters |-> searchFilters(page.filters)])
          ELSE /\ page' = afterHybridSearch([page EXCEPT !.lastSubmitted = Some(query)],
                                            localStorage, query,
                              combineVaultResults(localStorage, query,
                                                  searchFilters(page.filters), <<>>),
                              "unsent")
               /\ UNCHANGED pending
     ELSE /\ Len(pending) < MaxPending
          /\ page' = [page EXCEPT !.isSearching = TRUE, !.lastSubmitted = Some(query)]
          /\ pending' = Append(pending, [branch |-> "legacy", query |-> query])

RemoveAt(seq, i) == SubSeq(seq, 1, i - 1) \o SubSeq(seq, i + 1, Len(seq))

(* the answer of /api/vault/search reaches a waiting handleSearch *)
HandleSearchVaultAnswer(i, response) ==
  /\ Idle
  /\ i \in 1..Len(pending)
  /\ pending[i].branch = "vault"
  /\ pending' = RemoveAt(pending, i)
  /\ UNCHANGED <<localStorage, call, cloud>>
  /\ LET vaultResults == searchVaultResponse(response)
         results == combineVaultResults(localStorage, pending[i].query,
                                        pending[i].filters, vaultResults)
     IN page' = afterHybridSearch(page, localStorage, pending[i].query, results,
                                  response.kind)

(* the answer of /api/embeddings reaches a waiting handleSearch: the        *)
(* embedding when the response is ok, undefined otherwise                   *)
HandleSearchEmbeddingAnswer(i, response) ==
  /\ Idle
  /\ i \in 1..Len(pending)
  /\ pending[i].branch = "legacy"
  /\ pending' = RemoveAt(pending, i)
  /\ UNCHANGED <<localStorage, call, cloud>>
  /\ LET queryEmbedding == IF response.kind = "ok" THEN response.embedding ELSE undefined
         results == hybridSearchLegacy(localStorage, pending[i].query, queryEmbedding,
                                       undefined, undefined)
     IN page' = showResults(page, results,
                            [branch |-> "legacy", query |-> pending[i].query,
                             outcome |-> response.kind])

(* the clear button of the search box: loadEvidence() *)
ClearSearch ==
  /\ Idle
  /\ page' = loadEvidence(page, localStorage)
  /\ UNCHANGED <<localStorage, call, pending, cloud>>

(* toggleCategory(category) and toggleTag(tag): the value leaves the filter *)
(* when it is there and joins it at the end otherwise                        *)
toggle(seq, v) ==
  IF SeqIncludes(seq, v) THEN SelectSeq(seq, LAMBDA x : x # v) ELSE Append(seq, v)

(* a change of the filters runs the effect that calls loadEvidence() *)
ToggleCategory(category) ==
  /\ Idle
  /\ page' = loadEvidence([page EXCEPT !.filters.categories = toggle(@, category)],
                          localStorage)
  /\ UNCHANGED <<localStorage, call, pending, cloud>>

ToggleTag(tag) ==
  /\ Idle
  /\ page' = loadEvidence([page EXCEPT !.filters.tags = toggle(@, tag)], localStorage)
  /\ UNCHANGED <<localStorage, call, pending, cloud>>

-----------------------------------------------------------------------------
(* CaseDevClient.searchVault, from the parsed response of the search        *)
(* endpoint on.  Scores are in thousandths, distances too (the pool's       *)
(* distances are even, so distance / 2 is exact).                           *)

(* a chunk of the response: the three spellings of the object id, the four  *)
(* score fields and the text, each of which may be missing                  *)
Chunk(object_id, objectId, id, hybridScore, distance, score, relevance, text) ==
  [object_id |-> object_id, objectId |-> objectId, id |-> id,
   hybridScore |-> hybridScore, distance |-> distance, score |-> score,
   relevance |-> relevance, text |-> text]

Source(id, filename) == [id |-> id, filename |-> filename]

(* a || b on optional numbers: 0 is falsy *)
TruthyNumber(o) == IsDefined(o) /\ o[1] # 0

(* chunk.object_id || chunk.objectId || chunk.id *)
chunkObjectId(chunk) ==
  IF Truthy(chunk.object_id) THEN chunk.object_id
  ELSE IF Truthy(chunk.objectId) THEN chunk.objectId
  ELSE chunk.id

(* the score of one chunk *)
chunkScore(chunk) ==
  IF chunk.hybridScore # undefined THEN chunk.hybridScore[1]
  ELSE IF chunk.distance # undefined
  THEN LET similarity == 1000 - (chunk.distance[1] \div 2)
       IN IF similarity > 0 THEN similarity ELSE 0
  ELSE IF TruthyNumber(chunk.score) THEN chunk.score[1]
  ELSE IF TruthyNumber(chunk.relevance) THEN chunk.relevance[1]
  ELSE 0

(* chunk.text || '' *)
chunkText(chunk) == IF Truthy(chunk.text) THEN chunk.text[1] ELSE ""

(* the chunks and the sources the response format gives *)
responseChunks(response) ==
  IF response.format \in {"array", "chunks", "results", "data"} THEN response.chunks
  ELSE <<>>

responseSources(response) ==
  IF response.format = "chunks" /\ IsDefined(response.sources) THEN response.sources[1]
  ELSE <<>>

(* sourceMap.get(objectId): the filename of the last source with that id *)
sourceFilename(sources, objectId) ==
  LET at == {i \in 1..Len(sources) : Some(sources[i].id) = objectId}
  IN IF at = {} THEN undefined
     ELSE Some(sources[CHOOSE i \in at : \A j \in at : j <= i].filename)

(* documentScores after one more chunk, keeping the first chunk of each     *)
(* object whatever the later ones score                                     *)
setDocumentScoreOnce(documentScores, chunk) ==
  LET objectId == chunkObjectId(chunk)
      entry == [objectId |-> objectId, score |-> chunkScore(chunk), text |-> chunkText(chunk)]
  IN IF \E i \in 1..Len(documentScores) : documentScores[i].objectId = objectId
     THEN documentScores
     ELSE Append(documentScores, entry)

(* documentScores after one more chunk: a Map in insertion order, an entry  *)
(* replaced in its place when the chunk scores higher                       *)
setDocumentScore(documentScores, chunk) ==
  LET objectId == chunkObjectId(chunk)
      entry == [objectId |-> objectId, score |-> chunkScore(chunk), text |-> chunkText(chunk)]
  IN IF \E i \in 1..Len(documentScores) : documentScores[i].objectId = objectId
     THEN [i \in 1..Len(documentScores) |->
             IF documentScores[i].objectId = objectId /\ entry.score > documentScores[i].score
             THEN entry ELSE documentScores[i]]
     ELSE Append(documentScores, entry)

RECURSIVE documentScoresOf(_)
documentScoresOf(chunks) ==
  IF chunks = <<>> THEN <<>>
  ELSE setDocumentScore(documentScoresOf(SubSeq(chunks, 1, Len(chunks) - 1)),
                        chunks[Len(chunks)])

(* the results before sorting: the entries whose object has a source with a *)
(* filename                                                                  *)
clientResultsUnsorted(response) ==
  LET documentScores == documentScoresOf(responseChunks(response))
      sources == responseSources(response)
      kept == SelectSeq(documentScores,
                        LAMBDA d : Truthy(sourceFilename(sources, d.objectId)))
  IN [i \in 1..Len(kept) |->
        [objectId |-> kept[i].objectId[1],
         filename |-> sourceFilename(sources, kept[i].objectId)[1],
         score |-> kept[i].score, matchedText |-> kept[i].text]]

CaseDevClient_searchVault(response) == SortByScoreDesc(clientResultsUnsorted(response))

(* the inputs of the runs with the client *)
ChunkPool ==
  { Chunk(Some("o1"), undefined, undefined, Some(400), undefined, undefined, undefined, Some("low")),
    Chunk(Some("o1"), undefined, undefined, Some(900), Some(0), undefined, undefined, Some("high")),
    Chunk(undefined, Some("o2"), undefined, undefined, Some(600), Some(950), undefined, undefined),
    Chunk(undefined, Some("o2"), undefined, undefined, Some(2400), undefined, undefined, Some("far")),
    Chunk(undefined, undefined, Some("o3"), undefined, undefined, Some(900), Some(100), Some("scored")),
    Chunk(undefined, undefined, Some("o3"), undefined, undefined, Some(0), Some(950), Some("relevant")),
    Chunk(Some(""), Some("o1"), Some("o3"), Some(0), Some(600), undefined, undefined, Some("zero")),
    Chunk(undefined, undefined, undefined, undefined, undefined, undefined, undefined, Some("bare")) }

SourceListOfAll ==
  Some(<<Source("o1", "A.pdf"), Source("o2", "B.pdf"), Source("o3", "C.pdf")>>)

SourceLists ==
  { undefined,
    Some(<<>>),
    Some(<<Source("o1", "A.pdf"), Source("o2", "B.pdf")>>),
    Some(<<Source("o1", ""), Source("o3", "C.pdf"), Source("o2", "B.pdf")>>) }

ClientResponses ==
  { [format |-> "chunks", chunks |-> c, sources |-> s] :
      c \in SeqsUpTo(ChunkPool, MaxChunks), s \in SourceLists }
  \cup { [format |-> f, chunks |-> c, sources |-> SourceListOfAll] :
           f \in {"array", "results", "data", "none"}, c \in SeqsUpTo(ChunkPool, 1) }

CallClientSearchVault(response) ==
  /\ Idle
  /\ call' = [op |-> "CaseDevClient.searchVault", response |-> response,
              ret |-> CaseDevClient_searchVault(response)]
  /\ UNCHANGED <<localStorage, page, pending, cloud>>

-----------------------------------------------------------------------------
(* The vault, the database and the handlers that keep the local metadata    *)
(* store in step with them: performVaultSync with syncFromVault,            *)
(* handleFileUpload up to the save of the initial metadata (text extraction *)
(* and classification, which update a record by its id, are left out) and   *)
(* handleDeleteEvidence.  A request acts on the service when its answer     *)
(* arrives.                                                                 *)

SyncedFromVault ==
  <<"s", "y", "n", "c", "e", "d", "-", "f", "r", "o", "m", "-", "v", "a", "u", "l", "t">>

Unknown == <<"U", "n", "k", "n", "o", "w", "n">>

(* the object the vault stores for the n-th upload; the second has no       *)
(* filename and is still being processed                                    *)
VaultObject(n) ==
  [id |-> "o" \o ToString(n),
   filename |-> IF n = 2 THEN <<>> ELSE <<"b">>,
   status |-> IF n = 2 THEN "pending" ELSE "ready"]

hasProjectId(ls) == Truthy(ls[DATABASE_PROJECT_ID_KEY])

(* saveMetadataToDatabase, loadMetadataFromDatabase and                     *)
(* deleteMetadataFromDatabase send a request only with the credentials      *)
databaseSends(ls) == Truthy(ls[API_KEY_STORAGE_KEY]) /\ hasProjectId(ls)

saveAllEvidenceMetadata(ls, items) == [ls EXCEPT ![EVIDENCE_METADATA_KEY] = <<items>>]

addEvidenceMetadata(ls, metadata) ==
  saveAllEvidenceMetadata(ls, Append(getAllEvidenceMetadata(ls), metadata))

(* the ids and object ids that a record, a row or a waiting handler holds *)
HeldIds(ls, cl, pend) ==
  {getAllEvidenceMetadata(ls)[k].id : k \in 1..Len(getAllEvidenceMetadata(ls))}
    \cup {cl.rows[k].id : k \in 1..Len(cl.rows)}
    \cup {pend[k].id : k \in {j \in 1..Len(pend) : pend[j].branch = "delete"}}
    \cup {pend[k].saving.id :
            k \in {j \in 1..Len(pend) : pend[j].branch \in {"sync", "upload"}
                                        /\ pend[j].step = "save"}}

(* generateId for the handlers: an id that nothing holds (the first free    *)
(* number)                                                                   *)
generateIdFresh(ls, cl, pend) ==
  LET held == HeldIds(ls, cl, pend)
      free == {n \in 1..(Cardinality(held) + 1) : ("m" \o ToString(n)) \notin held}
  IN "m" \o ToString(CHOOSE n \in free : \A k \in free : n <= k)

(* the row of INSERT INTO evidence_metadata for the body of the POST *)
rowOf(metadata) ==
  [id |-> metadata.id, object_id |-> metadata.vaultDocRef.objectId,
   filename |-> metadata.vaultDocRef.filename, category |-> metadata.category,
   tags |-> metadata.tags,
   summary |-> IF IsDefined(metadata.summary) /\ metadata.summary[1] # <<>>
               THEN metadata.summary ELSE null,
   date_detected |-> IF IsDefined(metadata.dateDetected) /\ metadata.dateDetected[1] # <<>>
                     THEN metadata.dateDetected ELSE null,
   created_at |-> Stamp2]

(* INSERT ... ON CONFLICT (object_id) DO UPDATE: the row of an object keeps *)
(* its id and created_at; SELECT ... ORDER BY created_at DESC lists the     *)
(* newest row first.  Ids are fresh, so the primary key never conflicts.    *)
saveEvidenceMetadata(rows, row) ==
  IF \E k \in 1..Len(rows) : rows[k].object_id = row.object_id
  THEN [k \in 1..Len(rows) |->
          IF rows[k].object_id = row.object_id
          THEN [row EXCEPT !.id = rows[k].id, !.created_at = rows[k].created_at]
          ELSE rows[k]]
  ELSE <<row>> \o rows

(* the conversion of a database row to EvidenceMetadata *)
metadataOfRow(row) ==
  [id |-> row.id,
   vaultDocRef |-> [objectId |-> row.object_id, filename |-> row.filename,
                    status |-> "ready"],
   category |-> row.category, tags |-> row.tags, relevanceScore |-> 50,
   summary |-> row.summary, extractedText |-> undefined,
   dateDetected |-> row.date_detected, createdAt |-> row.created_at]

(* the metadata syncFromVault creates for a vault object *)
syncedMetadata(id, vaultObject) ==
  [id |-> id,
   vaultDocRef |-> [objectId |-> vaultObject.id,
                    filename |-> IF vaultObject.filename # <<>> THEN vaultObject.filename
                                 ELSE Unknown,
                    status |-> IF vaultObject.status = "ready" THEN "ready"
                               ELSE IF vaultObject.status = "failed" THEN "failed"
                               ELSE "processing"],
   category |-> "other", tags |-> <<SyncedFromVault>>, relevanceScore |-> 50,
   summary |-> undefined, extractedText |-> undefined, dateDetected |-> undefined,
   createdAt |-> Stamp1]

(* the metadata handleFileUpload creates from uploadResult.docRef *)
uploadedMetadata(id, vaultObject) ==
  [id |-> id,
   vaultDocRef |-> [objectId |-> vaultObject.id,
                    filename |-> IF vaultObject.filename # <<>> THEN vaultObject.filename
                                 ELSE <<"b">>,
                    status |-> "processing"],
   category |-> "other", tags |-> <<>>, relevanceScore |-> 0,
   summary |-> undefined, extractedText |-> undefined, dateDetected |-> undefined,
   createdAt |-> Stamp1]

(* the loop of syncFromVault over the listed objects that are left, up to   *)
(* its next await: a known object is skipped, for another the metadata is   *)
(* added to the local store and, with a project id, saved to the database   *)
RECURSIVE syncLoop(_, _, _, _)
syncLoop(ls, cl, pend, run) ==
  IF run.rest = <<>> THEN [ls |-> ls, run |-> [run EXCEPT !.step = "done"]]
  ELSE LET vaultObject == Head(run.rest)
       IN IF vaultObject.id \in run.existingObjectIds
          THEN syncLoop(ls, cl, pend,
                        [run EXCEPT !.skipped = @ + 1, !.rest = Tail(@)])
          ELSE LET metadata == syncedMetadata(generateIdFresh(ls, cl, pend), vaultObject)
                   added == addEvidenceMetadata(ls, metadata)
               IN IF run.projectId /\ databaseSends(added)
                  THEN [ls |-> added,
                        run |-> [run EXCEPT !.step = "save", !.saving = metadata,
                                            !.added = Append(@, metadata),
                                            !.rest = Tail(@)]]
                  ELSE syncLoop(added, cl, pend,
                                [run EXCEPT !.synced = @ + 1,
                                            !.added = Append(@, metadata),
                                            !.rest = Tail(@)])

(* what syncFromVault returns to performVaultSync, with what the run saw:  *)
(* the objects listed, the object ids it took as known, the records it      *)
(* added, whether it started right after a run that listed the vault with   *)
(* the same connection to the database, and whether every database request  *)
(* of the two runs was answered ok                                          *)
syncReturn(run, outcome) ==
  [op |-> "syncFromVault", outcome |-> outcome,
   ret |-> [synced |-> run.synced, skipped |-> run.skipped,
            fromDatabase |-> run.fromDatabase],
   listed |-> run.listed, known |-> run.existingObjectIds, added |-> run.added,
   projectId |-> run.projectId, again |-> run.again, answered |-> run.answered]

(* performVaultSync: without a vault id it returns; syncFromVault without   *)
(* an API key returns at once; with a project id it initializes the         *)
(* database and loads the metadata from it, without one it takes the local  *)
(* store and lists the vault objects                                         *)
startSync(again, answered) ==
  /\ Truthy(localStorage[VAULT_ID_KEY])
  /\ LET local == getAllEvidenceMetadata(localStorage)
         run == [branch |-> "sync",
                 step |-> IF hasProjectId(localStorage) THEN "load" ELSE "list",
                 projectId |-> hasProjectId(localStorage),
                 existingObjectIds |->
                   IF hasProjectId(localStorage) THEN {}
                   ELSE {local[k].vaultDocRef.objectId : k \in 1..Len(local)},
                 fromDatabase |-> 0, synced |-> 0, skipped |-> 0,
                 listed |-> <<>>, rest |-> <<>>, added |-> <<>>, saving |-> null,
                 again |-> again, answered |-> answered]
     IN IF ~Truthy(localStorage[API_KEY_STORAGE_KEY])
        THEN /\ page' = loadEvidence(page, localStorage)
             /\ call' = syncReturn(run, "no key")
             /\ UNCHANGED pending
        ELSE /\ Len(pending) < MaxPending
             /\ pending' = Append(pending, run)
             /\ call' = IdleCall
             /\ UNCHANGED page
  /\ UNCHANGED <<localStorage, cloud>>

PerformVaultSync ==
  /\ Idle
  /\ startSync(FALSE, TRUE)

(* performVaultSync once more, in the state the run before it has left, its *)
(* result still at hand                                                      *)
PerformVaultSyncAgain ==
  /\ call.op = "syncFromVault"
  /\ startSync(call.outcome = "listed" /\ call.projectId = hasProjectId(localStorage),
               call.answered)

(* the answer of GET /api/database/metadata reaches loadMetadataFromDatabase: *)
(* an ok answer replaces the local store by the rows, any other leaves it    *)
(* and counts as no metadata; then the vault objects are listed              *)
LoadMetadataAnswer(i, response) ==
  /\ Idle
  /\ i \in 1..Len(pending)
  /\ pending[i].branch = "sync"
  /\ pending[i].step = "load"
  /\ LET metadata == IF response = "ok"
                     THEN [k \in 1..Len(cloud.rows) |-> metadataOfRow(cloud.rows[k])]
                     ELSE <<>>
     IN /\ localStorage' = IF response = "ok"
                           THEN saveAllEvidenceMetadata(localStorage, metadata)
                           ELSE localStorage
        /\ pending' = [pending EXCEPT ![i] =
                         [@ EXCEPT !.step = "list",
                                   !.existingObjectIds =
                                     {metadata[k].vaultDocRef.objectId : k \in 1..Len(metadata)},
                                   !.fromDatabase = Len(metadata),
                                   !.answered = @ /\ response = "ok"]]
  /\ UNCHANGED <<call, page, cloud>>

(* a step of the loop: the local store, the waiting runs, the page and the  *)
(* result after the loop has run from `run` to its next await or to its end, *)
(* where performVaultSync calls loadEvidence()                               *)
SyncContinues(i, run) ==
  LET next == syncLoop(localStorage, cloud, pending, run)
  IN /\ Len(getAllEvidenceMetadata(next.ls)) <= MaxDocs
     /\ localStorage' = next.ls
     /\ IF next.run.step = "done"
        THEN /\ pending' = RemoveAt(pending, i)
             /\ page' = loadEvidence(page, next.ls)
             /\ call' = syncReturn(next.run, "listed")
        ELSE /\ pending' = [pending EXCEPT ![i] = next.run]
             /\ UNCHANGED <<call, page>>

(* the answer of /api/vault/list-objects: an answer that is not ok ends the *)
(* run with an error, an ok answer starts the loop over data.objects        *)
ListObjectsAnswer(i, response) ==
  /\ Idle
  /\ i \in 1..Len(pending)
  /\ pending[i].branch = "sync"
  /\ pending[i].step = "list"
  /\ UNCHANGED cloud
  /\ IF response = "ok"
     THEN SyncContinues(i, [pending[i] EXCEPT !.listed = cloud.objects,
                                              !.rest = cloud.objects])
     ELSE /\ pending' = RemoveAt(pending, i)
          /\ page' = loadEvidence(page, localStorage)
          /\ call' = syncReturn(pending[i], "failed")
          /\ UNCHANGED localStorage

(* the answer of POST /api/database/metadata reaches syncFromVault, which   *)
(* does not look at it: synced++ and the loop goes on                       *)
SyncSaveAnswer(i, response) ==
  /\ Idle
  /\ i \in 1..Len(pending)
  /\ pending[i].branch = "sync"
  /\ pending[i].step = "save"
  /\ cloud' = IF response = "ok"
              THEN [cloud EXCEPT !.rows = saveEvidenceMetadata(@, rowOf(pending[i].saving))]
              ELSE cloud
  /\ SyncContinues(i, [pending[i] EXCEPT !.synced = @ + 1, !.saving = null,
                                         !.answered = @ /\ response = "ok"])

(* handleFileUpload for one file, vault and API key at hand: the upload     *)
(* request stores the object in the vault                                   *)
HandleFileUpload ==
  /\ Idle
  /\ Truthy(localStorage[API_KEY_STORAGE_KEY])
  /\ Truthy(localStorage[VAULT_ID_KEY])
  /\ Len(pending) < MaxPending
  /\ cloud.stored < MaxUploads
  /\ cloud' = [cloud EXCEPT !.objects = Append(@, VaultObject(cloud.stored + 1)),
                            !.stored = @ + 1]
  /\ pending' = Append(pending, [branch |-> "upload", step |-> "upload",
                                 object |-> VaultObject(cloud.stored + 1)])
  /\ UNCHANGED <<localStorage, call, page>>

(* the answer of /api/vault/upload (and the thumbnail) reaches the handler: *)
(* a failed upload leaves the file out, otherwise addEvidenceMetadata and   *)
(* saveMetadataToDatabase                                                    *)
UploadAnswer(i, response) ==
  /\ Idle
  /\ i \in 1..Len(pending)
  /\ pending[i].branch = "upload"
  /\ pending[i].step = "upload"
  /\ UNCHANGED <<call, page, cloud>>
  /\ IF response # "ok"
     THEN /\ pending' = RemoveAt(pending, i)
          /\ UNCHANGED localStorage
     ELSE LET metadata == uploadedMetadata(generateIdFresh(localStorage, cloud, pending),
                                           pending[i].object)
          IN /\ Len(getAllEvidenceMetadata(localStorage)) < MaxDocs
             /\ localStorage' = addEvidenceMetadata(localStorage, metadata)
             /\ pending' = IF databaseSends(localStorage)
                           THEN [pending EXCEPT ![i] =
                                   [branch |-> "upload", step |-> "save",
                                    saving |-> metadata]]
                           ELSE RemoveAt(pending, i)

(* the answer of POST /api/database/metadata reaches handleFileUpload *)
UploadSaveAnswer(i, response) ==
  /\ Idle
  /\ i \in 1..Len(pending)
  /\ pending[i].branch = "upload"
  /\ pending[i].step = "save"
  /\ cloud' = IF response = "ok"
              THEN [cloud EXCEPT !.rows = saveEvidenceMetadata(@, rowOf(pending[i].saving))]
              ELSE cloud
  /\ pending' = RemoveAt(pending, i)
  /\ UNCHANGED <<localStorage, call, page>>

(* deleteEvidence(id) of the legacy store *)
deleteEvidenceLegacy(ls, id) ==
  LET items == getAllEvidenceLegacy(ls)
      filtered == withoutId(items, id)
  IN IF Len(filtered) = Len(items) THEN ls
     ELSE [ls EXCEPT ![STORAGE_KEY] = <<filtered>>]

(* handleDeleteEvidence(evidenceId) of a stored record, confirmed: the      *)
(* request to delete the object from the vault                              *)
HandleDeleteEvidence(evidenceId) ==
  /\ Idle
  /\ Len(pending) < MaxPending
  /\ \E k \in 1..Len(getAllEvidenceMetadata(localStorage)) :
       /\ getAllEvidenceMetadata(localStorage)[k].id = evidenceId
       /\ \A j \in 1..(k - 1) : getAllEvidenceMetadata(localStorage)[j].id # evidenceId
       /\ pending' = Append(pending,
                       [branch |-> "delete", step |-> "vault", id |-> evidenceId,
                        objectId |-> getAllEvidenceMetadata(localStorage)[k].vaultDocRef.objectId])
  /\ UNCHANGED <<localStorage, call, page, cloud>>

(* the end of handleDeleteEvidence: deleteEvidenceLegacy and loadEvidence() *)
afterDelete(pg, ls, id) == loadEvidence(pg, deleteEvidenceLegacy(ls, id))

(* the answer of /api/vault/delete, which the handler does not look at:     *)
(* deleteEvidenceMetadata(id), then deleteMetadataFromDatabase(id)          *)
DeleteVaultAnswer(i, response) ==
  /\ Idle
  /\ i \in 1..Len(pending)
  /\ pending[i].branch = "delete"
  /\ pending[i].step = "vault"
  /\ cloud' = IF response = "ok"
              THEN [cloud EXCEPT !.objects =
                      SelectSeq(@, LAMBDA o : o.id # pending[i].objectId)]
              ELSE cloud
  /\ UNCHANGED call
  /\ LET deleted == deleteEvidenceMetadata(localStorage, pending[i].id).ls
     IN IF databaseSends(deleted)
        THEN /\ localStorage' = deleted
             /\ pending' = [pending EXCEPT ![i] = [@ EXCEPT !.step = "database"]]
             /\ UNCHANGED page
        ELSE /\ localStorage' = deleteEvidenceLegacy(deleted, pending[i].id)
             /\ pending' = RemoveAt(pending, i)
             /\ page' = afterDelete(page, deleted, pending[i].id)

(* the answer of DELETE /api/database/metadata: DELETE ... WHERE id *)
DeleteMetadataAnswer(i, response) ==
  /\ Idle
  /\ i \in 1..Len(pending)
  /\ pending[i].branch = "delete"
  /\ pending[i].step = "database"
  /\ cloud' = IF response = "ok"
              THEN [cloud EXCEPT !.rows = SelectSeq(@, LAMBDA row : row.id # pending[i].id)]
              ELSE cloud
  /\ localStorage' = deleteEvidenceLegacy(localStorage, pending[i].id)
  /\ pending' = RemoveAt(pending, i)
  /\ page' = afterDelete(page, localStorage, pending[i].id)
  /\ UNCHANGED call

-----------------------------------------------------------------------------
(* Specifications *)

LocalCalls ==
  \/ \E q \in Queries : CallSearchEvidence(q)
  \/ \E a \in VectorPool, b \in VectorPool : CallCosineSimilarity(a, b)
  \/ \E e \in QueryEmbeddings, m \in MinScoreArgs : CallSemanticSearch(e, m)
  \/ \E q \in Queries, e \in {undefined} \cup {Some(v) : v \in QueryEmbeddings},
        w \in WeightArgs : CallHybridSearchLegacy(q, e, w)

(* the legacy store and its rankers *)
NextLocal ==
  \/ \E c \in LocalDocPool : AddEvidence(c)
  \/ LocalCalls
  \/ Return

SpecLocal == Init /\ [][NextLocal]_vars

(* both stores and the three rankers *)
Next ==
  \/ SaveApiKey("sk_case_key")
  \/ GetOrCreateVault
  \/ \E c \in CoarseDocPool : AddEvidence(c)
  \/ \E c \in MetadataPool : AddEvidenceMetadata(c)
  \/ LocalCalls
  \/ \E q \in {<<"a">>}, f \in FilterArgs, r \in Responses : CallHybridSearch(q, f, r)
  \/ Return

Spec == Init /\ [][Next]_vars

(* the API key helpers *)
NextKeys ==
  \/ \E key \in ApiKeys : SaveApiKey(key)
  \/ RemoveApiKey
  \/ \E r \in ConnectResponses : VerifyApiKey(r)
  \/ GetOrCreateVault
  \/ Return

SpecKeys == Init /\ [][NextKeys]_vars

(* the metadata store, its deletion and filterEvidence *)
NextStore ==
  \/ \E c \in FilterMetadataPool : AddEvidenceMetadata(c)
  \/ \E id \in DeleteIds : DeleteEvidenceMetadata(id)
  \/ \E f \in FilterStates : CallFilterEvidence(f)
  \/ Return

SpecStore == Init /\ [][NextStore]_vars

(* the search handler of the page over both stores *)
NextPage ==
  \/ SaveApiKey("sk_case_key")
  \/ RemoveApiKey
  \/ GetOrCreateVault
  \/ \E c \in PageDocPool : AddEvidence(c)
  \/ \E c \in PageMetadataPool : AddEvidenceMetadata(c)
  \/ \E q \in PageQueries : HandleSearchStart(q)
  \/ \E i \in 1..MaxPending, r \in PageResponses : HandleSearchVaultAnswer(i, r)
  \/ \E i \in 1..MaxPending, r \in EmbeddingResponses : HandleSearchEmbeddingAnswer(i, r)
  \/ ClearSearch
  \/ \E r \in FailedResponses : CallSearchVault(<<"a">>, r)
  \/ \E r \in {[kind |-> "error"], OrphanResponse} :
        CallHybridSearch(<<"a">>, undefined, r)
  \/ Return

SpecPage == Init /\ [][NextPage]_vars

(* the search handler of the page with category and tag filters *)
NextFiltered ==
  \/ SaveApiKey("sk_case_key")
  \/ GetOrCreateVault
  \/ \E c \in PageDocPool : AddEvidence(c)
  \/ \E c \in PageMetadataPool : AddEvidenceMetadata(c)
  \/ ToggleCategory("contract")
  \/ ToggleTag(T1)
  \/ \E q \in PageQueries : HandleSearchStart(q)
  \/ \E i \in 1..MaxPending, r \in FilteredResponses : HandleSearchVaultAnswer(i, r)
  \/ \E i \in 1..MaxPending : HandleSearchEmbeddingAnswer(i, [kind |-> "error"])
  \/ CallSearchEvidence(<<"b">>)
  \/ Return

SpecFiltered == Init /\ [][NextFiltered]_vars

(* searches of two queries that overlap in time *)
NextOverlap ==
  \/ SaveApiKey("sk_case_key")
  \/ GetOrCreateVault
  \/ \E c \in PageDocPool : AddEvidence(c)
  \/ \E c \in PageMetadataPool : AddEvidenceMetadata(c)
  \/ \E q \in OverlapQueries : HandleSearchStart(q)
  \/ \E i \in 1..MaxPending, r \in FilteredResponses : HandleSearchVaultAnswer(i, r)
  \/ \E i \in 1..MaxPending, r \in EmbeddingResponses : HandleSearchEmbeddingAnswer(i, r)

SpecOverlap == Init /\ [][NextOverlap]_vars

(* the vault sync with the database, one handler at a time: documents are  *)
(* stored, uploaded and deleted between the runs                            *)
NextSync ==
  \/ SaveApiKey("sk_case_key")
  \/ VerifyApiKey(ProjectResponse)
  \/ Return
  \/ GetOrCreateVault
  \/ pending = <<>> /\ HandleFileUpload
  \/ \E i \in 1..MaxPending, r \in ServiceAnswers : UploadAnswer(i, r)
  \/ \E i \in 1..MaxPending, r \in ServiceAnswers : UploadSaveAnswer(i, r)
  \/ pending = <<>> /\ \E id \in RecordIds : HandleDeleteEvidence(id)
  \/ \E i \in 1..MaxPending, r \in ServiceAnswers : DeleteVaultAnswer(i, r)
  \/ \E i \in 1..MaxPending, r \in ServiceAnswers : DeleteMetadataAnswer(i, r)
  \/ pending = <<>> /\ PerformVaultSync
  \/ PerformVaultSyncAgain
  \/ \E i \in 1..MaxPending, r \in ServiceAnswers : LoadMetadataAnswer(i, r)
  \/ \E i \in 1..MaxPending, r \in ServiceAnswers : ListObjectsAnswer(i, r)
  \/ \E i \in 1..MaxPending, r \in ServiceAnswers : SyncSaveAnswer(i, r)

SpecSync == Init /\ [][NextSync]_vars

(* uploads, runs of the vault sync and deletions that overlap, the database *)
(* not connected                                                            *)
NextRace ==
  \/ SaveApiKey("sk_case_key")
  \/ Return
  \/ GetOrCreateVault
  \/ HandleFileUpload
  \/ \E i \in 1..MaxPending, r \in ServiceAnswers : UploadAnswer(i, r)
  \/ PerformVaultSync
  \/ \E i \in 1..MaxPending, r \in ServiceAnswers : ListObjectsAnswer(i, r)
  \/ \E id \in RecordIds : HandleDeleteEvidence(id)
  \/ \E i \in 1..MaxPending : DeleteVaultAnswer(i, "ok")

SpecRace == Init /\ [][NextRace]_vars

(* the search of the API client over the responses of the search endpoint *)
NextClient ==
  \/ \E r \in ClientResponses : CallClientSearchVault(r)
  \/ Return

SpecClient == Init /\ [][NextClient]_vars

-----------------------------------------------------------------------------
(* Vocabulary of the properties *)

Rankers == {"searchEvidence", "hybridSearchLegacy", "hybridSearch"}

IdsOf(results) == [i \in 1..Len(results) |-> results[i].item.id]

IdSetOf(results) == {results[i].item.id : i \in 1..Len(results)}

(* the score a result list gives to a document, 0 when it is not in the list *)
ScoreIn(results, id) ==
  IF id \in IdSetOf(results)
  THEN results[CHOOSE i \in 1..Len(results) : results[i].item.id = id].score
  ELSE 0

StoredItems == getAllEvidenceLegacy(localStorage)

(* s contains q, letter case ignored: some stretch of s reads as q *)
ContainsIgnoringCase(s, q) ==
  \E i \in 1..(Len(s) + 1), j \in 0..Len(s) :
    /\ j - i + 1 = Len(q)
    /\ \A k \in 1..Len(q) : LowerChar(s[i + k - 1]) = LowerChar(q[k])

FieldsMatching(item, q) ==
  [filename |-> ContainsIgnoringCase(item.filename, q),
   summary |-> item.summary # <<>> /\ ContainsIgnoringCase(item.summary[1], q),
   tags |-> \E t \in 1..Len(item.tags) : ContainsIgnoringCase(item.tags[t], q),
   extractedText |-> item.extractedText # <<>>
                       /\ ContainsIgnoringCase(item.extractedText[1], q)]

FieldPoints(m) ==
  (IF m.filename THEN 50 ELSE 0) + (IF m.summary THEN 30 ELSE 0)
  + (IF m.tags THEN 20 ELSE 0) + (IF m.extractedText THEN 10 ELSE 0)

(* n is x / d rounded to the nearest integer, halves up (d > 0) *)
IsRounded(n, x, d) == 2 * x - d < 2 * d * n /\ 2 * d * n <= 2 * x + d

IsSortedDescending(results) ==
  \A i \in 1..(Len(results) - 1) : results[i].score >= results[i + 1].score

-----------------------------------------------------------------------------
(* C1: every score returned by searchEvidence, by the local hybridSearch    *)
(* and by the remote-assisted hybridSearch is an integer in 0..100.         *)
C1_ScoresWithinZeroToHundred ==
  call.op \in Rankers =>
    \A i \in 1..Len(call.ret) : call.ret[i].score \in 0..100

(* C2: the list returned by each of the three rankers is sorted by score    *)
(* descending: each result scores at least as much as the one after it.     *)
C2_SortedByScoreDescending ==
  call.op \in Rankers => IsSortedDescending(call.ret)

(* the local hybrid ranker returned a document that is only a semantic      *)
(* match ahead of a keyword match with a lower score, though keyword        *)
(* matches enter its score map first                                        *)
C2_Witness ==
  /\ call.op = "hybridSearchLegacy"
  /\ \E i \in 1..Len(call.ret), j \in 1..Len(call.ret) :
       /\ i < j
       /\ call.ret[i].score > call.ret[j].score
       /\ call.ret[i].item.id \notin IdSetOf(searchEvidence(localStorage, call.query))
       /\ call.ret[j].item.id \in IdSetOf(searchEvidence(localStorage, call.query))

-----------------------------------------------------------------------------
(* Vocabulary of the properties about the local rankers *)

OnlyFilename == [filename |-> TRUE, summary |-> FALSE, tags |-> FALSE, extractedText |-> FALSE]

AllFields == [filename |-> TRUE, summary |-> TRUE, tags |-> TRUE, extractedText |-> TRUE]

IsBlank(q) == \A k \in 1..Len(q) : q[k] = " "

AllZero(v) == \A i \in 1..Len(v) : v[i] = 0

(* the weights in force in a call of the local hybrid ranker *)
KeywordWeightOf(c) == IF c.keywordWeight = <<>> THEN 30 ELSE c.keywordWeight[1]

SemanticWeightOf(c) == IF c.semanticWeight = <<>> THEN 70 ELSE c.semanticWeight[1]

(* the two result sets the local hybrid ranker combines *)
KeywordResultsOf(c) == searchEvidence(localStorage, c.query)

SemanticResultsOf(c) ==
  IF c.queryEmbedding = <<>> THEN <<>>
  ELSE semanticSearch(localStorage, c.queryEmbedding[1], <<20>>)

(* keywordScore * keywordWeight + semanticScore * semanticWeight of a       *)
(* document, in hundredths                                                  *)
WeightedSum(c, id) ==
  ScoreIn(KeywordResultsOf(c), id) * KeywordWeightOf(c)
  + ScoreIn(SemanticResultsOf(c), id) * SemanticWeightOf(c)

-----------------------------------------------------------------------------
(* C3: searchEvidence gives every document with a matching field the score  *)
(* round(rawScore / 110 * 100), rawScore being 50 for the filename, 30 for  *)
(* the summary, 20 for the tags and 10 for the extracted text, each counted *)
(* once; a filename-only match scores 45 and a match on all four 100.       *)
C3_KeywordScoreIsNormalizedFieldSum ==
  call.op = "searchEvidence" =>
    \A d \in 1..Len(StoredItems) :
      LET item == StoredItems[d]
          matching == FieldsMatching(item, call.query)
          score == ScoreIn(call.ret, item.id)
      IN FieldPoints(matching) > 0 =>
           /\ item.id \in IdSetOf(call.ret)
           /\ IsRounded(score, FieldPoints(matching) * 100, 110)
           /\ matching = OnlyFilename => score = 45
           /\ matching = AllFields => score = 100

(* one search returned a filename-only match and a match on all four fields *)
C3_Witness ==
  /\ call.op = "searchEvidence"
  /\ \E i \in 1..Len(call.ret), j \in 1..Len(call.ret) :
       /\ FieldsMatching(call.ret[i].item, call.query) = OnlyFilename
       /\ FieldsMatching(call.ret[j].item, call.query) = AllFields

(* C4: a document that matches the query in none of its four fields is not  *)
(* in the list searchEvidence returns, and no returned score is 0.          *)
C4_NoMatchIsAbsent ==
  call.op = "searchEvidence" =>
    /\ \A d \in 1..Len(StoredItems) :
         FieldPoints(FieldsMatching(StoredItems[d], call.query)) = 0
           => StoredItems[d].id \notin IdSetOf(call.ret)
    /\ \A i \in 1..Len(call.ret) : call.ret[i].score # 0

(* a search over a store that holds a matching and a non-matching document *)
C4_Witness ==
  /\ call.op = "searchEvidence"
  /\ call.ret # <<>>
  /\ \E d \in 1..Len(StoredItems) :
       FieldPoints(FieldsMatching(StoredItems[d], call.query)) = 0

(* C5: given an empty or whitespace-only query searchEvidence excludes no   *)
(* document of the store.                                                   *)
C5_BlankQueryExcludesNothing ==
  (call.op = "searchEvidence" /\ IsBlank(call.query)) =>
    \A d \in 1..Len(StoredItems) : StoredItems[d].id \in IdSetOf(call.ret)

(* C6: semanticSearch returns exactly the documents with a non-empty        *)
(* embedding whose cosine similarity is at least minScore (0.3 by default,  *)
(* the boundary included, compared before rounding), each with score        *)
(* round(similarity * 100).                                                 *)
C6_SemanticSearchIsThresholdOnSimilarity ==
  call.op = "semanticSearch" =>
    LET min == IF call.minScore = <<>> THEN 30 ELSE call.minScore[1]
    IN \A d \in 1..Len(StoredItems) :
         LET item == StoredItems[d]
             present == item.embedding # <<>> /\ item.embedding[1] # <<>>
             sim == cosineSimilarity(call.queryEmbedding, item.embedding[1])
             n == ScoreIn(call.ret, item.id)
         IN /\ item.id \in IdSetOf(call.ret)
                 <=> (present /\ sim.num >= 0
                        /\ (100 * sim.num) * (100 * sim.num) >= min * min * sim.den2)
            /\ item.id \in IdSetOf(call.ret)
                 => /\ n >= 0
                    /\ n = 0 \/ (2 * n - 1) * (2 * n - 1) * sim.den2
                                  <= (200 * sim.num) * (200 * sim.num)
                    /\ (2 * n + 1) * (2 * n + 1) * sim.den2
                         > (200 * sim.num) * (200 * sim.num)

(* a search with the default threshold returned a document whose similarity *)
(* is exactly 0.3 and left out one whose similarity 0.297 rounds to 30      *)
C6_Witness ==
  /\ call.op = "semanticSearch"
  /\ call.minScore = <<>>
  /\ call.queryEmbedding = QueryVector
  /\ \E i \in 1..Len(call.ret) : call.ret[i].item.embedding = <<AtThreshold30>>
  /\ \E d \in 1..Len(StoredItems) :
       /\ StoredItems[d].embedding = <<Below30>>
       /\ StoredItems[d].id \notin IdSetOf(call.ret)

(* C7: cosineSimilarity returns 0 when the vectors differ in length and     *)
(* when either has zero magnitude, two empty vectors included.              *)
C7_CosineOfDefectiveInputIsZero ==
  call.op = "cosineSimilarity" =>
    ((Len(call.a) # Len(call.b) \/ AllZero(call.a) \/ AllZero(call.b))
       => call.ret.num = 0)

(* a call on two vectors of different lengths, neither of them zero *)
C7_Witness ==
  /\ call.op = "cosineSimilarity"
  /\ Len(call.a) # Len(call.b)
  /\ ~AllZero(call.a)
  /\ ~AllZero(call.b)
  /\ call.ret.num = 0

(* C8: the local hybrid ranker scores each returned document                *)
(* round(keywordScore * keywordWeight + semanticScore * semanticWeight);    *)
(* with the default weights 100 and 0 give 30, 0 and 100 give 70.           *)
C8_CombinedScoreIsWeightedSum ==
  call.op = "hybridSearchLegacy" =>
    \A i \in 1..Len(call.ret) :
      LET id == call.ret[i].item.id
          keywordScore == ScoreIn(KeywordResultsOf(call), id)
          semanticScore == ScoreIn(SemanticResultsOf(call), id)
          defaults == call.keywordWeight = <<>> /\ call.semanticWeight = <<>>
      IN /\ IsRounded(call.ret[i].score, WeightedSum(call, id), 100)
         /\ (defaults /\ keywordScore = 100 /\ semanticScore = 0)
              => call.ret[i].score = 30
         /\ (defaults /\ keywordScore = 0 /\ semanticScore = 100)
              => call.ret[i].score = 70

(* with the default weights, one call returned a document with keyword      *)
(* score 100 and no semantic score and one with semantic score 100 only     *)
C8_Witness ==
  /\ call.op = "hybridSearchLegacy"
  /\ call.keywordWeight = <<>>
  /\ call.semanticWeight = <<>>
  /\ \E i \in 1..Len(call.ret), j \in 1..Len(call.ret) :
       /\ ScoreIn(KeywordResultsOf(call), call.ret[i].item.id) = 100
       /\ ScoreIn(SemanticResultsOf(call), call.ret[i].item.id) = 0
       /\ ScoreIn(KeywordResultsOf(call), call.ret[j].item.id) = 0
       /\ ScoreIn(SemanticResultsOf(call), call.ret[j].item.id) = 100

(* C9, as claimed: without a query embedding the local hybrid ranker        *)
(* returns the documents of searchEvidence(query) in the same order, each   *)
(* with score round(keywordScore * keywordWeight).                          *)
C9_SameDocumentsAsKeywordRanker ==
  (call.op = "hybridSearchLegacy" /\ call.queryEmbedding = <<>>) =>
    /\ IdsOf(call.ret) = IdsOf(KeywordResultsOf(call))
    /\ \A i \in 1..Len(call.ret) :
         IsRounded(call.ret[i].score,
                   KeywordResultsOf(call)[i].score * KeywordWeightOf(call), 100)

(* C9, amended: without a query embedding the local hybrid ranker returns,  *)
(* in the order of searchEvidence(query), the keyword matches whose         *)
(* round(keywordScore * keywordWeight) is greater than 0, each with that    *)
(* score; with the default weight 0.3 these are all the keyword matches.    *)
C9_KeywordRankerMinusZeroScores ==
  (call.op = "hybridSearchLegacy" /\ call.queryEmbedding = <<>>) =>
    LET keywordResults == KeywordResultsOf(call)
        weight == KeywordWeightOf(call)
        scaledAboveZero == {i \in 1..Len(keywordResults) :
                              \E n \in 1..100 :
                                IsRounded(n, keywordResults[i].score * weight, 100)}
        expected == SelectSeqIdx(keywordResults, scaledAboveZero)
    IN /\ IdsOf(call.ret) = IdsOf(expected)
       /\ \A i \in 1..Len(call.ret) :
            IsRounded(call.ret[i].score, expected[i].score * weight, 100)
       /\ call.keywordWeight = <<>> => IdsOf(call.ret) = IdsOf(keywordResults)

(* a call without embedding that returned some keyword matches, not all *)
C9_Witness ==
  /\ call.op = "hybridSearchLegacy"
  /\ call.queryEmbedding = <<>>
  /\ call.ret # <<>>
  /\ Len(call.ret) < Len(KeywordResultsOf(call))

(* C10: a document of the keyword or of the semantic result set is in the   *)
(* output of the local hybrid ranker exactly when its combined rounded      *)
(* score is greater than 0, and no result is returned with score 0.         *)
C10_DroppedExactlyWhenCombinedScoreIsZero ==
  call.op = "hybridSearchLegacy" =>
    /\ \A id \in IdSetOf(KeywordResultsOf(call)) \cup IdSetOf(SemanticResultsOf(call)) :
         LET sum == WeightedSum(call, id)
         IN id \in IdSetOf(call.ret) <=> \E n \in 1..200 : IsRounded(n, sum, 100)
    /\ \A i \in 1..Len(call.ret) : call.ret[i].score # 0

(* a call with a query embedding dropped a keyword match whose combined     *)
(* score is 0 and returned a semantic match                                 *)
C10_Witness ==
  /\ call.op = "hybridSearchLegacy"
  /\ call.queryEmbedding # <<>>
  /\ \E id \in IdSetOf(KeywordResultsOf(call)) : id \notin IdSetOf(call.ret)
  /\ \E i \in 1..Len(call.ret) :
       call.ret[i].item.id \in IdSetOf(SemanticResultsOf(call))

-----------------------------------------------------------------------------
(* Vocabulary of the properties about the remote-assisted hybridSearch *)

StoredMetadata == getAllEvidenceMetadata(localStorage)

(* the remote results a call of the remote-assisted hybridSearch worked on *)
RemoteResultsOf(c) == searchVault(localStorage, c.response)

RemoteObjectIdsOf(c) ==
  {RemoteResultsOf(c)[k].objectId : k \in 1..Len(RemoteResultsOf(c))}

(* the categories and the tags a call filters by, {} when that filter is off *)
CategoryFilterOf(c) ==
  IF c.filters = <<>> THEN {}
  ELSE IF c.filters[1].categories = <<>> THEN {}
  ELSE {c.filters[1].categories[1][k] : k \in 1..Len(c.filters[1].categories[1])}

TagFilterOf(c) ==
  IF c.filters = <<>> THEN {}
  ELSE IF c.filters[1].tags = <<>> THEN {}
  ELSE {c.filters[1].tags[1][k] : k \in 1..Len(c.filters[1].tags[1])}

(* no local record carries the remote result's object id *)
IsOrphan(r) ==
  \A m \in 1..Len(StoredMetadata) : StoredMetadata[m].vaultDocRef.objectId # r.objectId

(* the local record a remote result resolves to: the first one with its object id *)
ResolvedRecord(r) ==
  StoredMetadata[CHOOSE m \in 1..Len(StoredMetadata) :
                   /\ StoredMetadata[m].vaultDocRef.objectId = r.objectId
                   /\ \A n \in 1..(m - 1) :
                        StoredMetadata[n].vaultDocRef.objectId # r.objectId]

OrphanId(r) == "vault-" \o r.objectId

(* the positions of the output that carry the item id *)
EmittedAs(c, id) == {i \in 1..Len(c.ret) : c.ret[i].item.id = id}

TagSetOf(record) == {record.tags[t] : t \in 1..Len(record.tags)}

PassesFilters(c, category, tags) ==
  /\ CategoryFilterOf(c) # {} => category \in CategoryFilterOf(c)
  /\ TagFilterOf(c) # {} => tags \cap TagFilterOf(c) # {}

IsSynthetic(item) == "needsSync" \in DOMAIN item

-----------------------------------------------------------------------------
(* C11: with no category or tag filter active, every remote result whose     *)
(* objectId matches no local metadata record yields exactly one output item  *)
(* of the remote-assisted hybridSearch: id 'vault-' + objectId, category     *)
(* 'other', no tags, needsSync true, score round(remoteScore * 100), so that *)
(* a remote score of 0.92 gives 92.                                          *)
C11_OrphanYieldsOneSyntheticItem ==
  (call.op = "hybridSearch" /\ CategoryFilterOf(call) = {} /\ TagFilterOf(call) = {}) =>
    \A k \in 1..Len(RemoteResultsOf(call)) :
      LET r == RemoteResultsOf(call)[k]
          at == EmittedAs(call, OrphanId(r))
      IN IsOrphan(r) =>
           /\ Cardinality(at) = 1
           /\ \A i \in at :
                /\ call.ret[i].item.category = "other"
                /\ call.ret[i].item.tags = <<>>
                /\ IsSynthetic(call.ret[i].item)
                /\ call.ret[i].item.needsSync = TRUE
                /\ IsRounded(call.ret[i].score, r.score, 10)
                /\ r.score = 920 => call.ret[i].score = 92

(* an unfiltered search over a store with records returned a synthetic item *)
(* of score 92 next to a resolved one                                        *)
C11_Witness ==
  /\ call.op = "hybridSearch"
  /\ CategoryFilterOf(call) = {} /\ TagFilterOf(call) = {}
  /\ \E i \in 1..Len(call.ret), j \in 1..Len(call.ret) :
       /\ IsSynthetic(call.ret[i].item)
       /\ call.ret[i].score = 92
       /\ ~IsSynthetic(call.ret[j].item)

(* C12: an orphaned remote result is filtered as a document of category      *)
(* 'other' without tags: it is in the output exactly when no tag filter is   *)
(* active and the category filter is off or contains 'other'.                *)
C12_OrphanFilteredAsOtherWithoutTags ==
  call.op = "hybridSearch" =>
    \A k \in 1..Len(RemoteResultsOf(call)) :
      LET r == RemoteResultsOf(call)[k]
      IN IsOrphan(r) =>
           /\ (CategoryFilterOf(call) # {} /\ "other" \notin CategoryFilterOf(call))
                => EmittedAs(call, OrphanId(r)) = {}
           /\ TagFilterOf(call) # {} => EmittedAs(call, OrphanId(r)) = {}
           /\ ("other" \in CategoryFilterOf(call) /\ TagFilterOf(call) = {})
                => EmittedAs(call, OrphanId(r)) # {}
           /\ CategoryFilterOf(call) = {"contract"} => EmittedAs(call, OrphanId(r)) = {}

(* the remote results held an orphan and the filter ['other'] kept it *)
C12_Witness ==
  /\ call.op = "hybridSearch"
  /\ CategoryFilterOf(call) = {"other"} /\ TagFilterOf(call) = {}
  /\ StoredMetadata # <<>>
  /\ \E i \in 1..Len(call.ret) : IsSynthetic(call.ret[i].item)

(* an orphan was dropped by the filter ['contract'] while a resolved record  *)
(* of that category was kept                                                 *)
C12_WitnessDropped ==
  /\ call.op = "hybridSearch"
  /\ CategoryFilterOf(call) = {"contract"}
  /\ \E k \in 1..Len(RemoteResultsOf(call)) : IsOrphan(RemoteResultsOf(call)[k])
  /\ call.ret # <<>>

(* C13: a remote result that resolves to a local metadata record is emitted  *)
(* if and only if that record passes the filters (category in the category   *)
(* filter when it is non-empty, a tag in the tag filter when it is           *)
(* non-empty); the emitted item carries the record's fields and the score    *)
(* round(remoteScore * 100).                                                 *)
C13_ResolvedEmittedIffRecordPassesFilters ==
  call.op = "hybridSearch" =>
    \A k \in 1..Len(RemoteResultsOf(call)) :
      LET r == RemoteResultsOf(call)[k]
      IN ~IsOrphan(r) =>
           LET record == ResolvedRecord(r)
               at == EmittedAs(call, record.id)
           IN /\ at # {} <=> PassesFilters(call, record.category, TagSetOf(record))
              /\ \A i \in at :
                   /\ call.ret[i].item.category = record.category
                   /\ call.ret[i].item.tags = record.tags
                   /\ call.ret[i].item.filename = record.vaultDocRef.filename
                   /\ call.ret[i].item.summary = record.summary
                   /\ call.ret[i].item.extractedText = record.extractedText
                   /\ call.ret[i].item.relevanceScore = record.relevanceScore
                   /\ IsRounded(call.ret[i].score, r.score, 10)

(* under a tag filter one resolved record was emitted and another, whose     *)
(* tags miss the filter, was not                                             *)
C13_Witness ==
  /\ call.op = "hybridSearch"
  /\ TagFilterOf(call) # {}
  /\ call.ret # <<>>
  /\ \E k \in 1..Len(RemoteResultsOf(call)) :
       LET r == RemoteResultsOf(call)[k]
       IN ~IsOrphan(r) /\ EmittedAs(call, ResolvedRecord(r).id) = {}

(* C14: a remote result is resolved by its objectId against the records'     *)
(* vaultDocRef.objectId only: one whose objectId is the id of a local record *)
(* but the vaultDocRef.objectId of none is handled as an orphan, and every   *)
(* resolved item of the output carries the id of the local record whose      *)
(* vaultDocRef.objectId the vault returned.                                  *)
C14_ResolvedByObjectIdNotByLocalId ==
  call.op = "hybridSearch" =>
    /\ \A k \in 1..Len(RemoteResultsOf(call)) :
         LET r == RemoteResultsOf(call)[k]
         IN (IsOrphan(r) /\ \E m \in 1..Len(StoredMetadata) : StoredMetadata[m].id = r.objectId)
              => /\ EmittedAs(call, OrphanId(r)) # {} <=> PassesFilters(call, "other", {})
                 /\ EmittedAs(call, r.objectId) # {}
                      => \E m \in 1..Len(StoredMetadata) :
                           /\ StoredMetadata[m].id = r.objectId
                           /\ StoredMetadata[m].vaultDocRef.objectId \in RemoteObjectIdsOf(call)
    /\ \A i \in 1..Len(call.ret) :
         ~IsSynthetic(call.ret[i].item) =>
           \E m \in 1..Len(StoredMetadata) :
             /\ StoredMetadata[m].id = call.ret[i].item.id
             /\ StoredMetadata[m].vaultDocRef.objectId \in RemoteObjectIdsOf(call)

(* the vault returned an object id that is the id of a stored record, and   *)
(* the output holds the synthetic item for it but not that record            *)
C14_Witness ==
  /\ call.op = "hybridSearch"
  /\ \E k \in 1..Len(RemoteResultsOf(call)) :
       LET r == RemoteResultsOf(call)[k]
       IN /\ \E m \in 1..Len(StoredMetadata) : StoredMetadata[m].id = r.objectId
          /\ EmittedAs(call, OrphanId(r)) # {}
          /\ EmittedAs(call, r.objectId) = {}

-----------------------------------------------------------------------------
(* Vocabulary of the properties about handleSearch *)

ItemsOf(results) == [i \in 1..Len(results) |-> results[i].item]

ScorePairsOf(results) ==
  [i \in 1..Len(results) |-> [id |-> results[i].item.id, score |-> results[i].score]]

(* the page shows the result list: the items in its order, their scores,    *)
(* the search flag set and the spinner off                                  *)
Shows(pg, results) ==
  /\ pg.evidence = ItemsOf(results)
  /\ pg.searchResults = ScorePairsOf(results)
  /\ pg.isSearchResult = TRUE
  /\ pg.isSearching = FALSE

(* the collaborator cannot be asked or fails *)
NoApiKey == localStorage["case-dev-api-key"] \in {<<>>, <<"">>}

NoVaultId == localStorage["case-dev-vault-id"] \in {<<>>, <<"">>}

Failed(response) == response.kind \in {"error", "notok"}

(* C15: a failure of the remote search collaborator (no API key, no vault    *)
(* id, a response that is not ok, a request that throws) is zero remote      *)
(* results: searchVault returns the empty list, the remote-assisted          *)
(* hybridSearch returns the empty list, and handleSearch runs to its end on  *)
(* the path of an empty result, showing what searchEvidence(query) returns.  *)
C15_RemoteFailureIsZeroRemoteResults ==
  /\ [](/\ (call.op \in {"searchVault", "hybridSearch"}
              /\ (NoApiKey \/ NoVaultId \/ Failed(call.response)))
            => call.ret = <<>>
        /\ (page.lastSearch.branch # "none"
              /\ page.lastSearch.outcome \in {"error", "notok", "unsent"})
            => page.lastSearch.branch \in {"fallback", "legacy"})
  /\ [][/\ \A i \in 1..Len(pending), r \in FailedResponses :
             HandleSearchVaultAnswer(i, r) =>
               /\ Shows(page', searchEvidence(localStorage, pending[i].query))
               /\ Len(pending') = Len(pending) - 1
        /\ \A q \in PageQueries :
             (trim(q) # <<>> /\ ~NoVaultId /\ NoApiKey /\ HandleSearchStart(q)) =>
               /\ Shows(page', searchEvidence(localStorage, q))
               /\ pending' = pending]_vars

(* a vault search whose request threw has ended and the page shows the      *)
(* keyword results                                                           *)
C15_Witness ==
  /\ page.lastSearch.branch = "fallback"
  /\ page.lastSearch.outcome = "error"
  /\ page.evidence # <<>>
  /\ ~page.isSearching

(* C16: the fallback to keyword ranking belongs to the caller: the           *)
(* remote-assisted hybridSearch returns the empty list when the vault        *)
(* returns zero results and never returns a document of the keyword ranker;  *)
(* handleSearch, with a vault configured, shows the results of hybridSearch  *)
(* when there are some and otherwise runs searchEvidence(query) and shows    *)
(* its results.                                                              *)
C16_FallbackBelongsToTheCaller ==
  /\ [](call.op = "hybridSearch" =>
          /\ RemoteResultsOf(call) = <<>> => call.ret = <<>>
          /\ \A i \in 1..Len(call.ret), d \in 1..Len(StoredItems) :
               call.ret[i].item.id # StoredItems[d].id)
  /\ [][\A i \in 1..Len(pending), r \in PageResponses :
          HandleSearchVaultAnswer(i, r) =>
            LET returned == combineVaultResults(localStorage, pending[i].query,
                                                pending[i].filters,
                                                searchVaultResponse(r))
            IN IF returned = <<>>
               THEN Shows(page', searchEvidence(localStorage, pending[i].query))
               ELSE Shows(page', returned)]_vars

(* the vault answered with no result while the legacy store held a keyword  *)
(* match, and the page shows that match                                      *)
C16_Witness ==
  /\ page.lastSearch.branch = "fallback"
  /\ page.lastSearch.outcome = "ok"
  /\ page.evidence # <<>>
  /\ page.isSearchResult

-----------------------------------------------------------------------------
(* C17: after removeApiKey() none of the stored API key, the stored database *)
(* project id and the stored vault id remains in localStorage, whatever was  *)
(* stored before.                                                            *)
C17_RemoveApiKeyClearsKeyProjectAndVault ==
  [][RemoveApiKey =>
       /\ localStorage'[API_KEY_STORAGE_KEY] = null
       /\ localStorage'[DATABASE_PROJECT_ID_KEY] = null
       /\ localStorage'[VAULT_ID_KEY] = null]_vars

(* C18: when the connect endpoint answers successfully with                  *)
(* database.projectId and vault.vaultId, verifyApiKey returns true and both  *)
(* identifiers are in localStorage, under 'case-dev-database-project-id' and *)
(* 'case-dev-vault-id'.                                                      *)
C18_ConnectStoresProjectIdAndVaultId ==
  (/\ call.op = "verifyApiKey"
   /\ call.response.kind = "ok"
   /\ call.response.database # <<>>
   /\ call.response.vault # <<>>) =>
    /\ call.ret = TRUE
    /\ localStorage["case-dev-database-project-id"]
         = call.response.database[1].projectId
    /\ localStorage["case-dev-vault-id"] = call.response.vault[1].vaultId

-----------------------------------------------------------------------------
(* Vocabulary of the properties about the metadata store *)

(* the positions of the records of a list that do not carry the id *)
OtherRecords(records, id) == {i \in 1..Len(records) : records[i].id # id}

(* C19: deleteEvidenceMetadata(id) returns true if and only if the store     *)
(* held a record with that id; afterwards no record with that id remains and *)
(* every other record is still there, unchanged and in its order; when it    *)
(* returns false the store is unchanged.                                     *)
C19_DeleteReturnsWhetherRecordExisted ==
  call.op = "deleteEvidenceMetadata" =>
    LET others == OtherRecords(call.before, call.id)
    IN /\ call.ret = TRUE <=> \E i \in 1..Len(call.before) : call.before[i].id = call.id
       /\ \A i \in 1..Len(StoredMetadata) : StoredMetadata[i].id # call.id
       /\ Len(StoredMetadata) = Cardinality(others)
       /\ \A i \in others :
            StoredMetadata[Cardinality({j \in others : j <= i})] = call.before[i]
       /\ call.ret = FALSE => StoredMetadata = call.before

(* a record was deleted from a store that held another record before it *)
C19_Witness ==
  /\ call.op = "deleteEvidenceMetadata"
  /\ call.ret = TRUE
  /\ Len(call.before) = 2
  /\ call.before[2].id = call.id
  /\ Len(StoredMetadata) = 1

-----------------------------------------------------------------------------
(* Vocabulary of the properties about filterEvidence *)

(* the date of an item: dateDetected, else createdAt *)
DateOf(item) ==
  IF item.dateDetected = <<>> \/ item.dateDetected = << <<>> >>
  THEN item.createdAt ELSE item.dateDetected[1]

Given(bound) == bound # <<>> /\ bound # << <<>> >>

(* the item satisfies every active filter; dates and range bounds are        *)
(* strings and compare as strings                                            *)
SatisfiesFilters(item, f) ==
  /\ f.categories # <<>> => \E c \in 1..Len(f.categories) : f.categories[c] = item.category
  /\ f.tags # <<>> => \E t \in 1..Len(f.tags), u \in 1..Len(item.tags) : f.tags[t] = item.tags[u]
  /\ Given(f.dateRange.start) => StringCompare(f.dateRange.start[1], DateOf(item)) <= 0
  /\ Given(f.dateRange.end) => StringCompare(DateOf(item), f.dateRange.end[1]) <= 0
  /\ f.searchQuery # <<>> =>
       \/ ContainsIgnoringCase(item.filename, f.searchQuery)
       \/ item.summary # <<>> /\ ContainsIgnoringCase(item.summary[1], f.searchQuery)
       \/ item.extractedText # <<>>
            /\ ContainsIgnoringCase(item.extractedText[1], f.searchQuery)
       \/ \E t \in 1..Len(item.tags) : ContainsIgnoringCase(item.tags[t], f.searchQuery)

(* a comes no later than b in ascending order of the sort key *)
KeyNotAfter(a, b, sortBy) ==
  CASE sortBy = "date" -> localeCompare(DateOf(a), DateOf(b)) <= 0
    [] sortBy = "relevance" -> a.relevanceScore <= b.relevanceScore
    [] sortBy = "name" -> localeCompare(a.filename, b.filename) <= 0

NoFilterActive(f) ==
  /\ f.categories = <<>> /\ f.tags = <<>> /\ f.searchQuery = <<>>
  /\ ~Given(f.dateRange.start) /\ ~Given(f.dateRange.end)

StoredVaultItems == getAllEvidence(localStorage)

(* C20: filterEvidence(filters) returns exactly the stored items that        *)
(* satisfy every active filter (category, tag, inclusive date range on       *)
(* dateDetected else createdAt, case-insensitive search query), each once,   *)
(* ordered by the chosen sort key in the chosen direction; with all filters  *)
(* empty it returns every stored item.                                       *)
C20_FilterEvidenceReturnsMatchingItemsSorted ==
  call.op = "filterEvidence" =>
    LET f == call.filters
        matching == {i \in 1..Len(StoredVaultItems) :
                       SatisfiesFilters(StoredVaultItems[i], f)}
    IN /\ Len(call.ret) = Cardinality(matching)
       /\ \A i \in matching : \E k \in 1..Len(call.ret) : call.ret[k] = StoredVaultItems[i]
       /\ \A k \in 1..Len(call.ret) : \E i \in matching : call.ret[k] = StoredVaultItems[i]
       /\ \A k \in 1..(Len(call.ret) - 1) :
            IF f.sortOrder = "asc"
            THEN KeyNotAfter(call.ret[k], call.ret[k + 1], f.sortBy)
            ELSE KeyNotAfter(call.ret[k + 1], call.ret[k], f.sortBy)
       /\ NoFilterActive(f) => Len(call.ret) = Len(StoredVaultItems)

(* a call with a date range and a search query kept one stored item and      *)
(* left one out                                                              *)
C20_Witness ==
  /\ call.op = "filterEvidence"
  /\ Given(call.filters.dateRange.start) /\ Given(call.filters.dateRange.end)
  /\ call.filters.searchQuery # <<>>
  /\ Len(call.ret) = 1
  /\ Len(StoredVaultItems) = 2

(* a call sorted two items by name, descending, against their store order *)
C20_WitnessSorted ==
  /\ call.op = "filterEvidence"
  /\ call.filters.sortBy = "name" /\ call.filters.sortOrder = "desc"
  /\ Len(call.ret) = 2
  /\ call.ret[1].filename # call.ret[2].filename
  /\ call.ret[1] = StoredVaultItems[2]

-----------------------------------------------------------------------------
(* Vocabulary of the properties about the rankers as a whole *)

ScoringCalls == {"searchEvidence", "semanticSearch", "hybridSearchLegacy", "hybridSearch"}

(* C21: scoring is read-only: a call of searchEvidence, semanticSearch, the  *)
(* local hybridSearch or the remote-assisted hybridSearch leaves the legacy  *)
(* evidence list, the vault metadata list and the stored vault id in         *)
(* localStorage exactly as they were before the call.                        *)
C21_ScoringIsReadOnly ==
  [][(call.op = "idle" /\ call'.op \in ScoringCalls) =>
       /\ localStorage'["evidence-triage-items"] = localStorage["evidence-triage-items"]
       /\ localStorage'["evidence-metadata"] = localStorage["evidence-metadata"]
       /\ localStorage'["case-dev-vault-id"] = localStorage["case-dev-vault-id"]]_vars

(* a ranker has returned results while both stores hold a document and a    *)
(* vault id is stored                                                        *)
C21_Witness ==
  /\ call.op \in ScoringCalls
  /\ call.ret # <<>>
  /\ StoredItems # <<>>
  /\ StoredMetadata # <<>>
  /\ ~NoVaultId

(* the place of an item id in a list of ids *)
PlaceOf(ids, id) == CHOOSE p \in 1..Len(ids) : ids[p] = id

(* results with equal scores stand in the order their ids have in `ids` *)
TiesKeepOrderOf(results, ids) ==
  \A i \in 1..Len(results), j \in 1..Len(results) :
    (i < j /\ results[i].score = results[j].score) =>
      PlaceOf(ids, results[i].item.id) < PlaceOf(ids, results[j].item.id)

(* the id of the item a remote result is shown as *)
ShownIdOf(r) == IF IsOrphan(r) THEN OrphanId(r) ELSE ResolvedRecord(r).id

(* the ids in the order the local hybrid ranker meets them: the keyword     *)
(* matches, then the matches that are semantic only                          *)
AccumulatorOrderOf(c) ==
  IdsOf(KeywordResultsOf(c))
  \o SelectSeq(IdsOf(SemanticResultsOf(c)),
               LAMBDA id : id \notin IdSetOf(KeywordResultsOf(c)))

(* C22: tie-breaking in every ranker is stable: two results with equal score *)
(* appear in the output in the relative order they had before sorting: the   *)
(* store order for searchEvidence and semanticSearch, the order of the       *)
(* remote results for the remote-assisted hybridSearch, keyword matches      *)
(* before semantic-only matches for the local hybridSearch.                  *)
C22_TiesKeepTheOrderBeforeSorting ==
  /\ call.op \in {"searchEvidence", "semanticSearch"} =>
       TiesKeepOrderOf(call.ret, IdsOf([i \in 1..Len(StoredItems) |-> [item |-> StoredItems[i]]]))
  /\ call.op = "hybridSearch" =>
       TiesKeepOrderOf(call.ret, [k \in 1..Len(RemoteResultsOf(call)) |->
                                    ShownIdOf(RemoteResultsOf(call)[k])])
  /\ call.op = "hybridSearchLegacy" =>
       TiesKeepOrderOf(call.ret, AccumulatorOrderOf(call))

(* the local hybrid ranker returned a keyword match ahead of a semantic-only *)
(* match of equal score that is stored before it                             *)
C22_Witness ==
  /\ call.op = "hybridSearchLegacy"
  /\ Len(call.ret) = 2
  /\ call.ret[1].score = call.ret[2].score
  /\ call.ret[1].item.id = StoredItems[2].id
  /\ call.ret[2].item.id \notin IdSetOf(KeywordResultsOf(call))

(* the remote-assisted ranker returned two results of equal score *)
C22_WitnessRemote ==
  /\ call.op = "hybridSearch"
  /\ Len(call.ret) = 2
  /\ call.ret[1].score = call.ret[2].score

(* the keyword ranker returned two results of equal score *)
C22_WitnessKeyword ==
  /\ call.op = "searchEvidence"
  /\ Len(call.ret) = 2
  /\ call.ret[1].score = call.ret[2].score

(* the documents that are both a keyword match and a semantic match of a call *)
MatchedBothWays(c) == IdSetOf(KeywordResultsOf(c)) \cap IdSetOf(SemanticResultsOf(c))

(* C23: the local hybrid ranker accumulates per document identity: each      *)
(* document id appears at most once in its output, and a document that is    *)
(* both a keyword match and a semantic match gets one entry whose score      *)
(* combines both sub-scores, not two entries.                                *)
C23_OneEntryPerDocumentId ==
  call.op = "hybridSearchLegacy" =>
    /\ \A i \in 1..Len(call.ret), j \in 1..Len(call.ret) :
         i # j => call.ret[i].item.id # call.ret[j].item.id
    /\ \A id \in MatchedBothWays(call) :
         /\ Cardinality(EmittedAs(call, id)) <= 1
         /\ \A i \in EmittedAs(call, id) :
              IsRounded(call.ret[i].score,
                        ScoreIn(KeywordResultsOf(call), id) * KeywordWeightOf(call)
                        + ScoreIn(SemanticResultsOf(call), id) * SemanticWeightOf(call),
                        100)

(* with the default weights a document with keyword score 100 and semantic   *)
(* score 100 was returned once, with score 100, next to another document     *)
C23_Witness ==
  /\ call.op = "hybridSearchLegacy"
  /\ call.keywordWeight = <<>>
  /\ call.semanticWeight = <<>>
  /\ Len(call.ret) = 2
  /\ \E id \in MatchedBothWays(call) :
       /\ ScoreIn(KeywordResultsOf(call), id) = 100
       /\ ScoreIn(SemanticResultsOf(call), id) = 100
       /\ \E i \in EmittedAs(call, id) : call.ret[i].score = 100

DefaultWeights(c) == c.keywordWeight = <<>> /\ c.semanticWeight = <<>>

(* C25: with the default weights (0.3, 0.7) the zero-score exclusion of the  *)
(* local hybrid ranker never removes a match: the set of document ids it     *)
(* returns is the union of the ids returned by searchEvidence(query) and by  *)
(* semanticSearch(queryEmbedding, 0.2), the combiner's own semantic          *)
(* threshold being 0.2 and not the semantic scorer's default 0.3, and every  *)
(* returned score is at least 3.                                             *)
C25_DefaultWeightsKeepEveryMatch ==
  (call.op = "hybridSearchLegacy" /\ DefaultWeights(call)) =>
    /\ IdSetOf(call.ret) =
         IdSetOf(searchEvidence(localStorage, call.query))
         \cup (IF call.queryEmbedding = <<>> THEN {}
               ELSE IdSetOf(semanticSearch(localStorage, call.queryEmbedding[1], <<20>>)))
    /\ \A i \in 1..Len(call.ret) : call.ret[i].score >= 3

(* with the default weights the ranker returned a document of score 3 (a    *)
(* match in the extracted text only) and a document that is a semantic       *)
(* match at 0.2 but not at 0.3                                               *)
C25_Witness ==
  /\ call.op = "hybridSearchLegacy"
  /\ DefaultWeights(call)
  /\ call.queryEmbedding # <<>>
  /\ \E i \in 1..Len(call.ret) : call.ret[i].score = 3
  /\ \E i \in 1..Len(call.ret) :
       /\ call.ret[i].item.id \notin IdSetOf(searchEvidence(localStorage, call.query))
       /\ call.ret[i].item.id \notin
            IdSetOf(semanticSearch(localStorage, call.queryEmbedding[1], <<30>>))

-----------------------------------------------------------------------------
(* Vocabulary of the properties about the displayed list *)

(* the item is of a category of the filter and carries a tag of the filter, *)
(* for the filters that are active                                           *)
PassesActiveFilters(item, f) ==
  /\ Len(f.categories) > 0 => SeqIncludes(f.categories, item.category)
  /\ Len(f.tags) > 0 => \E t \in 1..Len(f.tags) : SeqIncludes(item.tags, f.tags[t])

(* the page shows the outcome of a vault-backed search *)
ShowsVaultSearch ==
  /\ page.isSearchResult
  /\ page.lastSearch.branch \in {"vault", "fallback"}

(* C26: whenever category or tag filters are active, every item displayed   *)
(* by handleSearch after a vault-backed search satisfies those filters, on   *)
(* every path, the path where the remote-assisted hybridSearch returns       *)
(* nothing and the search falls back to the keyword ranker included.         *)
C26_SearchDisplayHonoursActiveFilters ==
  ShowsVaultSearch =>
    \A i \in 1..Len(page.evidence) : PassesActiveFilters(page.evidence[i], page.filters)

(* the same for the searches whose filters were not changed while the       *)
(* request was under way and that did not fall back                          *)
C26_VaultPathHonoursFilters ==
  [][\A i \in 1..Len(pending), r \in FilteredResponses :
       (/\ HandleSearchVaultAnswer(i, r)
        /\ pending[i].filters = searchFilters(page.filters)
        /\ page'.lastSearch.branch = "vault") =>
         \A k \in 1..Len(page'.evidence) :
           PassesActiveFilters(page'.evidence[k], page.filters)]_vars

(* a search that fell back shows an item outside the active category filter *)
C26_FallbackWitness ==
  /\ ShowsVaultSearch
  /\ page.lastSearch.branch = "fallback"
  /\ Len(page.filters.categories) > 0
  /\ \E i \in 1..Len(page.evidence) :
       ~PassesActiveFilters(page.evidence[i], page.filters)

(* the item is a document of the legacy store *)
IsLegacyDocument(item) == \E d \in 1..Len(StoredItems) : StoredItems[d] = item

(* C27: the keyword ranker searchEvidence, and therefore the keyword         *)
(* fallback of handleSearch, ranks only documents of the legacy store        *)
(* (localStorage key 'evidence-triage-items'): a document that exists only   *)
(* in the vault-backed metadata store (key 'evidence-metadata') is never in  *)
(* its results, whatever the query.                                          *)
C27_KeywordRankerSeesOnlyTheLegacyStore ==
  /\ call.op = "searchEvidence" =>
       \A i \in 1..Len(call.ret) :
         /\ IsLegacyDocument(call.ret[i].item)
         /\ \A m \in 1..Len(StoredMetadata) :
              call.ret[i].item.id # StoredMetadata[m].id
  /\ (page.isSearchResult /\ page.lastSearch.branch = "fallback") =>
       \A k \in 1..Len(page.evidence) :
         /\ IsLegacyDocument(page.evidence[k])
         /\ \A m \in 1..Len(StoredMetadata) :
              page.evidence[k].id # StoredMetadata[m].id

(* searchEvidence was called with a query that the file name of a record of *)
(* the metadata store contains, and returned the legacy documents only       *)
C27_Witness ==
  /\ call.op = "searchEvidence"
  /\ StoredItems # <<>>
  /\ \E m \in 1..Len(StoredMetadata) :
       includes(toLowerCase(StoredMetadata[m].vaultDocRef.filename),
                toLowerCase(call.query))
  /\ Len(call.ret) = Len(StoredItems)


-----------------------------------------------------------------------------
(* C28: when two searches started by handleSearch overlap in time, then     *)
(* once both have completed the displayed result list and score map are     *)
(* those of the most recently submitted query, whatever the order in which  *)
(* the two responses arrive: with no search under way, the search whose     *)
(* results are displayed is the one that was started last.                  *)
C28_LastSubmittedQueryIsDisplayed ==
  (pending = <<>> /\ page.isSearchResult /\ page.lastSearch.branch # "none")
    => Some(page.lastSearch.query) = page.lastSubmitted

(* both searches have completed and the one started last is displayed *)
C28_InOrderWitness ==
  /\ pending = <<>>
  /\ page.lastSearch.branch = "vault"
  /\ page.lastSearch.query = <<"z">>
  /\ page.lastSubmitted = Some(<<"z">>)
  /\ ~page.isSearching

(* the display of the search started first replaced that of the search      *)
(* started last, and the two displays differ                                *)
C28_StaleDisplay ==
  /\ pending = <<>>
  /\ page.isSearchResult
  /\ page.lastSearch.branch = "fallback"
  /\ page.lastSearch.query = <<"a">>
  /\ page.lastSubmitted = Some(<<"z">>)
  /\ page.evidence # <<>>


-----------------------------------------------------------------------------
(* C30: CaseDevClient.searchVault returns at most one result per object id: *)
(* the result's score is the maximum of the scores of that object's chunks  *)
(* (hybridScore if present, else max(0, 1 - distance/2), else score or      *)
(* relevance or 0), only objects that have an entry in the response's       *)
(* sources list are returned, and the results are sorted by score           *)
(* descending.                                                              *)
ScoreOfChunk(c) ==
  CASE IsDefined(c.hybridScore) -> c.hybridScore[1]
    [] ~IsDefined(c.hybridScore) /\ IsDefined(c.distance) ->
         IF 2000 - c.distance[1] > 0 THEN (2000 - c.distance[1]) \div 2 ELSE 0
    [] OTHER ->
         IF IsDefined(c.score) /\ c.score[1] # 0 THEN c.score[1]
         ELSE IF IsDefined(c.relevance) /\ c.relevance[1] # 0 THEN c.relevance[1]
         ELSE 0

ChunkScoresOf(response, objectId) ==
  { ScoreOfChunk(response.chunks[i]) :
      i \in { k \in 1..Len(response.chunks) :
                chunkObjectId(response.chunks[k]) = Some(objectId) } }

C30_OneResultPerObjectWithItsBestScore ==
  call.op = "CaseDevClient.searchVault" =>
    LET ret == call.ret
        response == call.response
    IN /\ \A i \in 1..Len(ret), j \in 1..Len(ret) :
            i # j => ret[i].objectId # ret[j].objectId
       /\ \A i \in 1..Len(ret) :
            LET scores == ChunkScoresOf(response, ret[i].objectId)
            IN /\ ret[i].score \in scores
               /\ \A sc \in scores : sc <= ret[i].score
       /\ \A i \in 1..Len(ret) :
            /\ IsDefined(response.sources)
            /\ \E k \in 1..Len(response.sources[1]) :
                 response.sources[1][k].id = ret[i].objectId
       /\ \A i \in 1..(Len(ret) - 1) : ret[i].score >= ret[i + 1].score

(* an object with two chunks of which the later scores higher is returned   *)
(* once with the higher score, ahead of an object whose chunk came first,   *)
(* and the response has a chunk of an object without a source               *)
C30_Witness ==
  /\ call.op = "CaseDevClient.searchVault"
  /\ Len(call.response.chunks) = MaxChunks
  /\ Len(call.ret) >= 1
  /\ \E i \in 1..MaxChunks, j \in 1..MaxChunks :
       /\ i < j
       /\ chunkObjectId(call.response.chunks[i]) = Some(call.ret[1].objectId)
       /\ chunkObjectId(call.response.chunks[j]) = Some(call.ret[1].objectId)
       /\ ScoreOfChunk(call.response.chunks[i]) < ScoreOfChunk(call.response.chunks[j])
       /\ call.ret[1].score = ScoreOfChunk(call.response.chunks[j])
  /\ \E k \in 1..MaxChunks :
       \A i \in 1..Len(call.ret) :
         chunkObjectId(call.response.chunks[k]) # Some(call.ret[i].objectId)

(* two objects are returned in the order of their scores, not of their chunks *)
C30_WitnessSorted ==
  /\ call.op = "CaseDevClient.searchVault"
  /\ Len(call.ret) = 2
  /\ call.ret[1].score > call.ret[2].score
  /\ chunkObjectId(call.response.chunks[1]) = Some(call.ret[2].objectId)


-----------------------------------------------------------------------------
(* C24: when syncFromVault lists the vault objects successfully, it adds    *)
(* exactly one new local metadata record (category 'other', tag             *)
(* 'synced-from-vault') for each listed object whose id is not the objectId *)
(* of an already known record, skips every listed object that is already    *)
(* known, and reports synced + skipped equal to the number of listed        *)
(* objects; run again with the vault and the stores unchanged it adds       *)
(* nothing (synced = 0).  The known records are those the run took as       *)
(* existing: the rows of the database with a project id, the local store    *)
(* without one.                                                             *)
UnknownOf(report) == SelectSeq(report.listed, LAMBDA o : o.id \notin report.known)

AddsOnePerUnknownObject(report) ==
  LET unknown == UnknownOf(report)
  IN /\ Len(report.added) = Len(unknown)
     /\ \A k \in 1..Len(unknown) :
          /\ report.added[k].vaultDocRef.objectId = unknown[k].id
          /\ report.added[k].category = "other"
          /\ report.added[k].tags = <<SyncedFromVault>>
     /\ report.ret.synced = Len(unknown)
     /\ report.ret.skipped = Len(report.listed) - Len(unknown)
     /\ report.ret.synced + report.ret.skipped = Len(report.listed)

(* the records a step of a run has added are the ones the local store got *)
StoreGrowsByTheAddedRecords ==
  (/\ pending # <<>>
   /\ pending[1].branch = "sync"
   /\ pending[1].step \in {"list", "save"}
   /\ pending' # pending) =>
    LET before == pending[1].added
        after == IF pending' = <<>> THEN call'.added ELSE pending'[1].added
    IN getAllEvidenceMetadata(localStorage') =
         getAllEvidenceMetadata(localStorage) \o SubSeq(after, Len(before) + 1, Len(after))

C24_SyncAddsEachUnknownObjectOnce ==
  /\ [](/\ call.op = "syncFromVault"
        /\ call.outcome = "listed"
        => /\ AddsOnePerUnknownObject(call)
           /\ call.again => call.ret.synced = 0)
  /\ [][StoreGrowsByTheAddedRecords]_vars

(* the same, the second run adding nothing when every request to the        *)
(* database of both runs was answered ok                                    *)
C24_HoldsWhileTheDatabaseAnswers ==
  /\ [](/\ call.op = "syncFromVault"
        /\ call.outcome = "listed"
        => /\ AddsOnePerUnknownObject(call)
           /\ (call.again /\ call.answered) => call.ret.synced = 0)
  /\ [][StoreGrowsByTheAddedRecords]_vars

(* a second run right after a run that listed the same object adds it again *)
C24_SyncedAgain ==
  /\ call.op = "syncFromVault"
  /\ call.outcome = "listed"
  /\ call.again
  /\ call.ret.synced > 0
  /\ Len(call.listed) = 1

(* a second run with a working database skips what the first has added *)
C24_SkippedAgain ==
  /\ call.op = "syncFromVault"
  /\ call.outcome = "listed"
  /\ call.again
  /\ call.answered
  /\ call.ret.skipped > 0
  /\ call.ret.synced = 0


-----------------------------------------------------------------------------
(* C29: in every reachable state no two records of the local metadata store *)
(* have the same vaultDocRef.objectId, under any interleaving of document   *)
(* uploads, syncFromVault runs (two overlapping runs included) and          *)
(* deletions.                                                               *)
C29_ObjectIdsOfLocalRecordsAreDistinct ==
  LET items == getAllEvidenceMetadata(localStorage)
  IN \A i \in 1..Len(items), j \in 1..Len(items) :
       i # j => items[i].vaultDocRef.objectId # items[j].vaultDocRef.objectId

(* two runs of the sync that overlapped have each added the same object *)
C29_TwoRunsAddedTheSameObject ==
  LET items == getAllEvidenceMetadata(localStorage)
  IN /\ Len(items) = 2
     /\ items[1].vaultDocRef.objectId = items[2].vaultDocRef.objectId
     /\ items[1].tags = <<SyncedFromVault>>
     /\ items[2].tags = <<SyncedFromVault>>

(* a run of the sync and the upload handler have each added the object *)
C29_SyncAndUploadAddedTheSameObject ==
  LET items == getAllEvidenceMetadata(localStorage)
  IN /\ Len(items) = 2
     /\ items[1].vaultDocRef.objectId = items[2].vaultDocRef.objectId
     /\ items[1].tags = <<SyncedFromVault>>
     /\ items[2].tags = <<>>

=============================================================================
